---- MODULE Spec2Model ----
(***************************************************************************)
(* Vocal VSE: the narration generation batch.                              *)
(*                                                                         *)
(* VSE_OT_generate_narration.invoke validates the voice profile, resolves  *)
(* and instantiates the synthesizer and submits background_synthesis_task  *)
(* to a one-thread executor.  The worker synthesizes the selected text     *)
(* strips one after the other and puts messages on a queue.  The modal     *)
(* handler of the operator runs on the main thread: on every TIMER event   *)
(* it drains the queue and then decides whether the batch is over; on ESC  *)
(* it sets the stop flag.                                                  *)
(*                                                                         *)
(* The worker thread and the main thread interleave at every queue         *)
(* operation and every read or write of the stop flag, so the worker and   *)
(* the TIMER branch of modal are modelled step by step.  invoke, the ESC   *)
(* branch and the finalization run on the main thread without reading      *)
(* anything the worker writes concurrently and are single actions.         *)
(*                                                                         *)
(* Besides the batch (Spec, FairSpec) the module has five smaller          *)
(* specifications over the same variables:                                 *)
(*   NamerSpec   file_manager.generate_audio_filename, called by several   *)
(*               invocations for several strips at several times;          *)
(*   FnSpec      single calls of _prepare_command, of the three            *)
(*               synthesize methods, of the reference resolution of        *)
(*               invoke and of Config._load_voices, each on its inputs;    *)
(*   ConfigSpec  the Config object: the lazy attribute voices, its         *)
(*               readers, reload_voices and the changes of voices.toml;    *)
(*   TimelineSpec  the output directory and the sound strips: batches      *)
(*               (worker iterations and finalization as single actions),   *)
(*               Cleanup Unused Files, Export Narrations and the edits of  *)
(*               the output directory preference;                          *)
(*   CopySpec    batches and Copy Audio Path.                              *)
(***************************************************************************)
EXTENDS Integers, Sequences, FiniteSets, TLC

\* ------------------------------------------------------------------ bounds

\* Number of text strips on the timeline (selected or not).
MaxStrips == 2

\* Number of times the operator is invoked in one run of the model.
MaxBatches == 2

Strips == 1..MaxStrips

\* ------------------------------------------------- message types (queue)

MSG_PROGRESS == "progress_update"
MSG_ERROR == "error"
MSG_CRITICAL_ERROR == "critical_error"
MSG_RESULT == "result"
MSG_FINISHED == "finished"

\* A queue message: its type and the strip it is about (0: no strip).
Msg(t, s) == [type |-> t, strip |-> s]

\* ------------------------------------------------ the profile registry

\* Strings that the code takes apart are sequences of tokens; "." and ":"
\* are tokens of their own, so that rsplit(":"), startswith(".") and the
\* concatenation with the built-in namespace are computed as the code does.
BuiltinNamespace == <<"vocal_vse", ".", "tts">>

\* config.voices: profile key -> synthesizer reference (<<>>: the profile
\* has no "synthesizer" entry).  A registry a user can have written: two
\* working relative references, the default file's reference to a class the
\* module does not define, an absolute reference, a reference without ':',
\* a profile without synthesizer and a reference to a module that is absent.
Voices ==
  [gtts       |-> <<".", "gtts", ":", "Handler">>,
   cmd        |-> <<".", "cmd", ":", "Synthesizer">>,
   gtts_dflt  |-> <<".", "gtts", ":", "Synthesizer">>,
   cmd_abs    |-> <<"vocal_vse", ".", "tts", ".", "cmd", ":", "Synthesizer">>,
   nocolon    |-> <<".", "gtts">>,
   nosynth    |-> <<>>,
   badmodule  |-> <<".", "nope", ":", "Handler">>]

\* The values the operator's voice_profile property is invoked with: the
\* registry's keys, the empty string, the "NONE" placeholder item and a key
\* that a reload removed from the registry.
ProfileInputs == DOMAIN Voices \cup {"", "NONE", "removed"}

\* The modules importlib can import, and the classes each defines.
\* (cmd.py derives from the package's SynthesizerBase.)
ModuleClasses(name) ==
  CASE name = BuiltinNamespace \o <<".", "gtts">>    -> {<<"Handler">>}
    [] name = BuiltinNamespace \o <<".", "pyttsx3">> -> {<<"Handler">>}
    [] name = BuiltinNamespace \o <<".", "cmd">>     -> {<<"Synthesizer">>}
    [] OTHER -> {}

ImportableModules ==
  { BuiltinNamespace \o <<".", "gtts">>,
    BuiltinNamespace \o <<".", "pyttsx3">>,
    BuiltinNamespace \o <<".", "cmd">> }

\* Which synthesizer variant an imported module's class is.
HandlerKind(name) == name[Len(name)]

\* ------------------------------------------ invoke: reference resolution

\* ":" in synthesizer_spec
HasColon(spec) == \E k \in 1..Len(spec) : spec[k] = ":"

\* The index rsplit(":", 1) splits at: the last ":".
LastColon(spec) ==
  CHOOSE k \in 1..Len(spec) :
    /\ spec[k] = ":"
    /\ \A j \in (k + 1)..Len(spec) : spec[j] # ":"

ModulePart(spec) == SubSeq(spec, 1, LastColon(spec) - 1)
ClassPart(spec) == SubSeq(spec, LastColon(spec) + 1, Len(spec))

\* module_part.startswith(".")
StartsWithDot(s) == Len(s) > 0 /\ s[1] = "."

\* The name handed to importlib.import_module.
HandlerModuleName(spec) ==
  IF StartsWithDot(ModulePart(spec))
    THEN BuiltinNamespace \o ModulePart(spec)
    ELSE spec

\* The selected text strips with non-blank text, in timeline order.
\* sel[s] is "unsel" (not selected), "text" (selected, non-blank text) or
\* "blank" (selected, text empty or white space).
RECURSIVE ValidFrom(_, _)
ValidFrom(sel, s) ==
  IF s > MaxStrips THEN <<>>
  ELSE (IF sel[s] = "text" THEN <<s>> ELSE <<>>) \o ValidFrom(sel, s + 1)

SelectedValid(sel) == ValidFrom(sel, 1)

\* poll: some selected strip is a TEXT strip.
Poll(sel) == \E s \in Strips : sel[s] # "unsel"

Selections == { sel \in [Strips -> {"unsel", "text", "blank"}] : Poll(sel) }

\* Mutant: invoke without the is_available() test.
HandlerAvailableUnchecked(inp) == TRUE

\* is_available() is called once the class has been instantiated; whether
\* the synthesizer's dependency is installed is in the input.
HandlerAvailable(inp) == inp.avail

\* invoke gets as far as creating the executor: every check passed and no
\* exception was raised inside its try block.
InvokeStarts(inp) ==
  LET p == inp.profile IN
  /\ p # ""
  /\ p # "NONE"
  /\ p \in DOMAIN Voices
  /\ Voices[p] # <<>>
  /\ HasColon(Voices[p])
  /\ HandlerModuleName(Voices[p]) \in ImportableModules
  /\ ClassPart(Voices[p]) \in ModuleClasses(HandlerModuleName(Voices[p]))
  /\ inp.inst
  /\ HandlerAvailable(inp)
  /\ SelectedValid(inp.sel) # <<>>

\* What invoke is called with: the profile key of the button, whether the
\* class instantiates with the profile's params, whether is_available()
\* answers true, and the selection.
InvokeInputs ==
  [profile : ProfileInputs, inst : BOOLEAN, avail : BOOLEAN, sel : Selections]

NoInput == [profile |-> "", inst |-> FALSE, avail |-> FALSE,
            sel |-> [s \in Strips |-> "unsel"]]

\* ------------------------------------------- file_manager: the strip id

\* A strip without the "tts_id" property.
NoId == <<>>

HexDigits == <<"0", "1", "2", "3", "4", "5", "6", "7",
               "8", "9", "a", "b", "c", "d", "e", "f">>

\* n times the character c.
Rep(n, c) == [k \in 1..n |-> c]

\* str(uuid.uuid4()) of the n-th uuid drawn: 8-4-4-4-12 hexadecimal digits
\* with the version digit 4 at the head of the third group.  uuid4 values
\* are random 122-bit numbers and taken to be distinct: the n-th one is
\* written with the n-th hexadecimal digit.
Uuid4Str(n) ==
  LET h == HexDigits[(n % 16) + 1] IN
    Rep(8, h) \o <<"-">> \o Rep(4, h) \o <<"-">> \o <<"4">> \o Rep(3, h)
      \o <<"-">> \o Rep(4, h) \o <<"-">> \o Rep(12, h)

\* .replace("-", "")
RemoveHyphens(str) == SelectSeq(str, LAMBDA c : c # "-")

\* [:16]
IdLength == 16
Truncate(str) == SubSeq(str, 1, IF Len(str) < IdLength THEN Len(str) ELSE IdLength)

\* The uuids drawn so far: one per strip that has an id.
Minted(ids) == Cardinality({s \in DOMAIN ids : ids[s] # NoId})

\* Mutant: a new id is minted at every call.
GetOrCreateAlwaysMints(ids, s) ==
  [ids EXCEPT ![s] = Truncate(RemoveHyphens(Uuid4Str(Minted(ids) + 1)))]

\* get_or_create_strip_id(strip): the strips' ids after the call; the call
\* returns the id the strip has then.
GetOrCreateStripId(ids, s) ==
  IF ids[s] = NoId
    THEN [ids EXCEPT ![s] = Truncate(RemoveHyphens(Uuid4Str(Minted(ids) + 1)))]
    ELSE ids

\* get_or_create_strip_id for every strip of a list, in order.
RECURSIVE GetOrCreateAll(_, _)
GetOrCreateAll(ids, strips) ==
  IF strips = <<>> THEN ids
  ELSE GetOrCreateAll(GetOrCreateStripId(ids, Head(strips)), Tail(strips))

\* ------------------------------------ file_manager: the output file name

\* The divisor of the timestamp.
TimestampModulus == 100000

\* time.time() is a pair <<whole seconds, tenths>>.  The calls are made at
\* these times, in this order: a first one, one in the same second, one in
\* the next second, one TimestampModulus seconds after the first.
Epoch == 1762199999
Times == << <<Epoch, 0>>, <<Epoch, 5>>, <<Epoch + 1, 0>>,
            <<Epoch + TimestampModulus, 0>> >>

\* The invocations of the operator whose workers call the function.
MaxRequests == 3
Batches == 1..2

\* int(time.time() % 100000): the remainder of the float keeps the
\* fraction, int() drops it.
Timestamp(t) ==
  LET rem == <<t[1] % TimestampModulus, t[2]>> IN rem[1]

\* The decimal digits, and str(n) for a natural number: how the f-string
\* writes the timestamp (no leading zeros, no fixed width).
DecDigits == <<"0", "1", "2", "3", "4", "5", "6", "7", "8", "9">>

RECURSIVE Str(_)
Str(n) ==
  IF n < 10 THEN <<DecDigits[n + 1]>>
  ELSE Str(n \div 10) \o <<DecDigits[(n % 10) + 1]>>

\* os.path.join(output_dir, f"voc_{strip_id}_{timestamp}.wav"): a path is
\* the directory, the separator and the characters of the file name; the
\* prefix "voc_" and the suffix ".wav" are symbols of their own.
AudioFilename(output_dir, strip_id, t) ==
  <<output_dir, "/", "voc_">> \o strip_id \o <<"_">>
    \o Str(Timestamp(t)) \o <<".wav">>

\* config.default_output_dir
OutputDir == "output_dir"

\* ------------------------------------------------ tts/cmd.py: the command

\* A string the code formats is a sequence of symbols: the braces are
\* symbols of their own, every other symbol stands for a run of characters
\* without braces.
Placeholder == <<"{", "output_path", "}">>

\* The arguments a profile's "args" list is made of: plain options, the
\* placeholder alone and inside an option, two placeholders in one
\* argument, doubled braces around the name, a second replacement field,
\* braces without the placeholder, and a TOML integer.
ArgPool ==
  { [isstr |-> TRUE, chars |-> <<"-o">>],
    [isstr |-> TRUE, chars |-> Placeholder],
    [isstr |-> TRUE, chars |-> <<"--out=">> \o Placeholder],
    [isstr |-> TRUE, chars |-> Placeholder \o <<":">> \o Placeholder],
    [isstr |-> TRUE, chars |-> <<"{">> \o Placeholder \o <<"}">>],
    [isstr |-> TRUE, chars |-> Placeholder \o <<"{", "voice", "}">>],
    [isstr |-> TRUE, chars |-> <<"{", "}">>],
    [isstr |-> FALSE, chars |-> <<"1">>] }

\* The length of an "args" list.
MaxArgs == 2

RECURSIVE SeqsUpTo(_, _)
SeqsUpTo(S, n) ==
  IF n = 0 THEN {<<>>}
  ELSE LET shorter == SeqsUpTo(S, n - 1) IN
         shorter \cup {Append(t, x) : t \in {u \in shorter : Len(u) = n - 1},
                                      x \in S}

ArgTemplates == SeqsUpTo(ArgPool, MaxArgs)

\* Output paths: in a directory, with braces in the name, without a
\* directory part.  "/" is a symbol of its own.
OutputPaths ==
  { <<"/tmp", "/", "x.wav">>, <<"/tmp", "/", "{", "x", "}", ".wav">>,
    <<"x.wav">> }

Bins == { "", "espeak-ng" }

\* "{output_path}" in arg
RECURSIVE ContainsFrom(_, _, _)
ContainsFrom(str, sub, k) ==
  IF k + Len(sub) - 1 > Len(str) THEN FALSE
  ELSE IF SubSeq(str, k, k + Len(sub) - 1) = sub THEN TRUE
  ELSE ContainsFrom(str, sub, k + 1)

Contains(str, sub) == ContainsFrom(str, sub, 1)

\* The result of an expression: a value, or the class of the exception it
\* raised.
Value(v) == [exc |-> "none", val |-> v]
Raise(cls) == [exc |-> cls, val |-> <<>>]

\* v in front of the value of r, when r has one.
Prepend(v, r) == IF r.exc = "none" THEN Value(v \o r.val) ELSE r

\* arg.format(output_path=output_path), scanning arg from position k:
\* "{{" and "}}" give one brace, "{name}" is a replacement field (the only
\* keyword passed is output_path, any other name is a KeyError, an empty
\* name an IndexError), a brace of any other kind is a ValueError.  The
\* value substituted is not scanned again.
RECURSIVE FormatFrom(_, _, _)
FormatFrom(arg, k, output_path) ==
  IF k > Len(arg) THEN Value(<<>>)
  ELSE IF arg[k] = "{" THEN
    IF k + 1 <= Len(arg) /\ arg[k + 1] = "{"
      THEN Prepend(<<"{">>, FormatFrom(arg, k + 2, output_path))
    ELSE IF k + 1 <= Len(arg) /\ arg[k + 1] = "}"
      THEN Raise("IndexError")
    ELSE IF k + 2 <= Len(arg) /\ arg[k + 2] = "}"
      THEN (IF arg[k + 1] = "output_path"
              THEN Prepend(output_path, FormatFrom(arg, k + 3, output_path))
              ELSE Raise("KeyError"))
    ELSE Raise("ValueError")
  ELSE IF arg[k] = "}" THEN
    IF k + 1 <= Len(arg) /\ arg[k + 1] = "}"
      THEN Prepend(<<"}">>, FormatFrom(arg, k + 2, output_path))
      ELSE Raise("ValueError")
  ELSE Prepend(<<arg[k]>>, FormatFrom(arg, k + 1, output_path))

Format(arg, output_path) == FormatFrom(arg, 1, output_path)

\* if isinstance(arg, str) and "{output_path}" in arg
IsPlaceholderArg(a) == a.isstr /\ Contains(a.chars, Placeholder)

\* "if not output_path_placeholder_used: formatted_args.append(output_path)"
AppendedPath(args, output_path) ==
  IF \E k \in 1..Len(args) : IsPlaceholderArg(args[k])
    THEN <<>>
    ELSE <<[isstr |-> TRUE, chars |-> output_path]>>

\* The loop over self.args: formatted_args, or the exception format raised.
RECURSIVE FormattedArgs(_, _)
FormattedArgs(args, output_path) ==
  IF args = <<>> THEN Value(<<>>)
  ELSE LET a == Head(args) IN
    IF IsPlaceholderArg(a)
      THEN LET f == Format(a.chars, output_path) IN
        IF f.exc # "none" THEN Raise(f.exc)
        ELSE Prepend(<<[isstr |-> TRUE, chars |-> f.val]>>,
                     FormattedArgs(Tail(args), output_path))
      ELSE Prepend(<<a>>, FormattedArgs(Tail(args), output_path))

\* Synthesizer._prepare_command(output_path)
PrepareCommand(bin, args, output_path) ==
  IF bin = "" THEN Raise("ValueError")
  ELSE LET f == FormattedArgs(args, output_path) IN
    IF f.exc # "none" THEN f
    ELSE Value(<<[isstr |-> TRUE, chars |-> <<bin>>]>> \o f.val
                 \o AppendedPath(args, output_path))

\* --------------------------------------------- tts/cmd.py: synthesize

\* os.path.dirname(output_path): what stands before the last "/".
Dirname(path) ==
  LET slashes == {k \in 1..Len(path) : path[k] = "/"} IN
    IF slashes = {} THEN <<>>
    ELSE SubSeq(path, 1, (CHOOSE k \in slashes : \A j \in slashes : j <= k) - 1)

\* What synthesize finds and what the process does:
\*   dir:    the directory of output_path exists, is absent, or is absent
\*           and cannot be created;
\*   before: a file exists at output_path;
\*   popen:  the process runs, the executable is not found, or Popen
\*           raises another OSError (no execute permission);
\*   exit:   the return code of the process;
\*   writes: the process writes no file, a part of the file, or all of it.
ExitCodes == {0, 1}

CmdEnvs(path) ==
  { e \in [dir : {"exists", "absent", "uncreatable"}, before : BOOLEAN,
           popen : {"runs", "not_found", "denied"}, exit : ExitCodes,
           writes : {"nothing", "partial", "all"}] :
      /\ Dirname(path) = <<>> => e.dir = "exists"
      /\ e.before => e.dir = "exists"
      /\ e.popen # "runs" => (e.exit = 0 /\ e.writes = "nothing") }

\* The argument lists synthesize is called with.
SynthArgs ==
  { <<>>,
    <<[isstr |-> TRUE, chars |-> <<"-w">>],
      [isstr |-> TRUE, chars |-> Placeholder]>>,
    <<[isstr |-> TRUE, chars |-> Placeholder \o <<"{", "voice", "}">>]>> }

\* An exception: its class and the parts of its message.
Exc(cls, msg) == [cls |-> cls, msg |-> msg]
NoExc == Exc("none", <<>>)

\* The body of the try statement: the exception it raises (or none),
\* whether the process was launched, and the directory and the file after.
CmdTryBody(path, env) ==
  IF Dirname(path) # <<>> /\ env.dir = "uncreatable"
    THEN [raised |-> Exc("PermissionError", <<"makedirs">>),
          launched |-> FALSE, dir |-> env.dir, file |-> env.before]
  ELSE LET dir == IF Dirname(path) # <<>> THEN "exists" ELSE env.dir IN
    IF env.popen = "not_found"
      THEN [raised |-> Exc("FileNotFoundError", <<"No such file">>),
            launched |-> FALSE, dir |-> dir, file |-> env.before]
    ELSE IF env.popen = "denied"
      THEN [raised |-> Exc("PermissionError", <<"Permission denied">>),
            launched |-> FALSE, dir |-> dir, file |-> env.before]
    ELSE [raised |->
            IF env.exit # 0
              THEN Exc("RuntimeError",
                       <<"failed with return code", "Stdout:", "stdout",
                         "Stderr:", "stderr">>)
              ELSE NoExc,
          launched |-> TRUE, dir |-> dir,
          file |-> (env.before \/ env.writes # "nothing")]

\* The except clauses: FileNotFoundError first, then every other
\* Exception, the RuntimeError of the return-code test included.
CmdExcept(e) ==
  IF e.cls = "none" THEN NoExc
  ELSE IF e.cls = "FileNotFoundError"
    THEN Exc("RuntimeError", <<"The executable was not found">>)
    ELSE Exc("RuntimeError", <<"Command execution failed:">> \o e.msg)

\* Synthesizer(bin, args).synthesize(text, output_path)
CmdSynthesize(bin, args, path, env) ==
  LET cmd == PrepareCommand(bin, args, path) IN
    IF cmd.exc # "none"
      THEN [raised |-> Exc(cmd.exc, <<>>), returned |-> "nothing",
            launched |-> FALSE, dir |-> env.dir, file |-> env.before]
      ELSE LET body == CmdTryBody(path, env) IN
        [raised |-> CmdExcept(body.raised),
         returned |-> IF body.raised.cls = "none" THEN "None" ELSE "nothing",
         launched |-> body.launched, dir |-> body.dir, file |-> body.file]

\* ------------------------------- tts/gtts.py, tts/pyttsx3.py: synthesize

\* What the in-process handlers find and what their engine does:
\*   engine: the lazy attribute (gTTS class, pyttsx3 engine) is there, or
\*           its initializer failed;
\*   writes: as above;
\*   raises: the engine call raises (after what it wrote).
EngineEnvs(path) ==
  { e \in [dir : {"exists", "absent", "uncreatable"}, before : BOOLEAN,
           engine : {"ok", "failed"}, writes : {"nothing", "partial", "all"},
           raises : BOOLEAN] :
      /\ Dirname(path) = <<>> => e.dir = "exists"
      /\ e.before => e.dir = "exists"
      /\ e.engine # "ok" => (e.writes = "nothing" /\ ~e.raises) }

\* The try statement both handlers share: os.makedirs(dirname) (which
\* raises on the empty string), the engine call, os.path.exists; every
\* exception is caught and makes the result False.
HandlerTry(path, env, engineThere) ==
  IF Dirname(path) = <<>> \/ env.dir = "uncreatable"
    THEN [raised |-> NoExc, returned |-> "False", launched |-> FALSE,
          dir |-> env.dir, file |-> env.before]
  ELSE IF ~engineThere
    THEN [raised |-> NoExc, returned |-> "False", launched |-> FALSE,
          dir |-> "exists", file |-> env.before]
  ELSE LET file == env.before \/ env.writes # "nothing" IN
    [raised |-> NoExc,
     returned |-> IF env.raises THEN "False"
                  ELSE IF file THEN "True" ELSE "False",
     launched |-> TRUE, dir |-> "exists", file |-> file]

\* gtts.Handler.synthesize: self.gTTS is imported inside the try.
GttsSynthesize(path, env) == HandlerTry(path, env, env.engine = "ok")

\* pyttsx3.Handler.synthesize: "if not self.engine: return False" comes
\* before the try (_get_engine gives None when pyttsx3 fails to start).
Pyttsx3Synthesize(path, env) ==
  IF env.engine # "ok"
    THEN [raised |-> NoExc, returned |-> "False", launched |-> FALSE,
          dir |-> env.dir, file |-> env.before]
    ELSE HandlerTry(path, env, TRUE)

\* ------------------------------------- invoke: the synthesizer is loaded

\* The references handed to the resolution: those of the registry.
References == {Voices[p] : p \in DOMAIN Voices} \ {<<>>}

\* The try statement of invoke up to the class lookup, for one
\* synthesizer_spec: whether the reference is rejected for its format, the
\* name given to importlib.import_module, the class name looked up in the
\* module, and the exception of the import or of getattr.
Resolve(spec) ==
  IF ~HasColon(spec)
    THEN [rejected |-> TRUE, imported |-> <<>>, class |-> <<>>,
          exc |-> "none"]
    ELSE [rejected |-> FALSE,
          imported |-> HandlerModuleName(spec),
          class |-> ClassPart(spec),
          exc |-> IF HandlerModuleName(spec) \notin ImportableModules
                    THEN "ModuleNotFoundError"
                  ELSE IF ClassPart(spec) \notin
                            ModuleClasses(HandlerModuleName(spec))
                    THEN "AttributeError"
                  ELSE "none"]

\* ------------------------------------------ core: the profile registry

\* A line of voices.toml: a table header "[name]", a "key = value" pair,
\* or text that is not TOML.
Table(name) == [kind |-> "table", name |-> name, key |-> "", value |-> ""]
Pair(key, value) == [kind |-> "pair", name |-> "", key |-> key,
                     value |-> value]
Junk == [kind |-> "junk", name |-> "", key |-> "", value |-> ""]

\* The text create_default_voices_config writes.
DefaultText ==
  << Table("pyttsx3"),
     Pair("name", "pyttsx3 (default)"),
     Pair("synthesizer", ".pyttsx3:Synthesizer"),
     Pair("params", "{volume = 1.0}"),
     Table("gtts-default"),
     Pair("name", "GTTS (default)"),
     Pair("synthesizer", ".gtts:Synthesizer"),
     Pair("params", "{lang = \"en\"}") >>

\* The texts a voices.toml holds: the default, a user's profile (that of
\* the test), no line at all, a line that is not TOML, a table defined
\* twice.
Texts ==
  { DefaultText,
    << Table("gtts-cli_es"),
       Pair("name", "gTTS CLI (Spanish)"),
       Pair("synthesizer", ".cmd:Synthesizer") >>,
    << >>,
    << Table("pyttsx3"), Junk >>,
    << Table("a"), Pair("name", "A"), Table("a") >> }

\* tomllib.load from line k on: cur is the table the pairs go to ("": the
\* top level), acc the dictionary built so far.
RECURSIVE ParseFrom(_, _, _, _)
ParseFrom(lines, k, cur, acc) ==
  IF k > Len(lines) THEN Value(acc)
  ELSE LET l == lines[k] IN
    IF l.kind = "table"
      THEN IF l.name \in DOMAIN acc THEN Raise("TOMLDecodeError")
           ELSE ParseFrom(lines, k + 1, l.name, acc @@ (l.name :> <<>>))
    ELSE IF l.kind = "pair"
      THEN IF cur = ""
             THEN IF l.key \in DOMAIN acc THEN Raise("TOMLDecodeError")
                  ELSE ParseFrom(lines, k + 1, cur,
                                 acc @@ (l.key :> l.value))
           ELSE IF l.key \in DOMAIN acc[cur] THEN Raise("TOMLDecodeError")
                ELSE ParseFrom(lines, k + 1, cur,
                               [acc EXCEPT ![cur] = @ @@ (l.key :> l.value)])
    ELSE Raise("TOMLDecodeError")

Parse(lines) == ParseFrom(lines, 1, "", <<>>)

\* A file: whether it exists, and its text.
NoFile == [there |-> FALSE, text |-> <<>>]
File(text) == [there |-> TRUE, text |-> text]

\* What the load finds:
\*   dir:      the config directory exists, is absent, or is absent and
\*             cannot be created;
\*   writable: a file can be created in the directory;
\*   file:     voices.toml;
\*   toml:     tomllib or tomli can be imported.
Envs ==
  { e \in [dir : {"exists", "absent", "uncreatable"}, writable : BOOLEAN,
           file : {NoFile} \cup {File(t) : t \in Texts}, toml : BOOLEAN] :
      e.file.there => e.dir = "exists" }

\* The lazy attributes of a Config object: "unset" (not in the instance
\* dictionary), "None" (the placeholder __getattr__ stores before it calls
\* the initializer) or "set"; voices_val is the value of voices when set.
NewConfig ==
  [config_dir |-> "unset", voices_config_path |-> "unset",
   voices |-> "unset", voices_val |-> <<>>]

\* The result of a step of the load: an exception or a value, and the
\* attributes and the environment after it.
Step(exc, val, c, e) == [exc |-> exc, val |-> val, cfg |-> c, env |-> e]

\* self.config_dir: the attribute, through __getattr__ and
\* _get_config_dir (os.makedirs) when it is unset.
GetConfigDir(c, e) ==
  IF c.config_dir = "unset"
    THEN IF e.dir = "uncreatable"
           THEN Step("OSError", "None", [c EXCEPT !.config_dir = "None"], e)
           ELSE Step("none", "set", [c EXCEPT !.config_dir = "set"],
                     [e EXCEPT !.dir = "exists"])
    ELSE Step("none", c.config_dir, c, e)

\* self.voices_config_path: the attribute, through __getattr__ and
\* _get_voices_config_path (os.path.join(self.config_dir, ...)) when it is
\* unset.
GetVoicesConfigPath(c, e) ==
  IF c.voices_config_path = "unset"
    THEN LET d == GetConfigDir([c EXCEPT !.voices_config_path = "None"], e) IN
      IF d.exc # "none" THEN d
      ELSE IF d.val = "None" THEN Step("TypeError", "None", d.cfg, d.env)
      ELSE Step("none", "set", [d.cfg EXCEPT !.voices_config_path = "set"],
                d.env)
    ELSE Step("none", c.voices_config_path, c, e)

\* create_default_voices_config(config_path): a failure to write is
\* logged and not raised.
CreateDefaultVoicesConfig(e) ==
  IF e.dir = "exists" /\ e.writable
    THEN [e EXCEPT !.file = File(DefaultText)]
    ELSE e

\* The try statement at the end of _load_voices.
OpenAndParse(e) ==
  IF ~e.file.there THEN <<>>
  ELSE IF Parse(e.file.text).exc # "none" THEN <<>>
  ELSE Parse(e.file.text).val

\* Config._load_voices()
LoadVoices(c, e) ==
  IF ~e.toml THEN Step("none", <<>>, c, e)
  ELSE LET p == GetVoicesConfigPath(c, e) IN
    IF p.exc # "none" THEN Step(p.exc, <<>>, p.cfg, p.env)
    ELSE IF p.val = "None" THEN Step("TypeError", <<>>, p.cfg, p.env)
    ELSE LET e1 == IF ~p.env.file.there
                     THEN CreateDefaultVoicesConfig(p.env) ELSE p.env IN
      Step("none", OpenAndParse(e1), p.cfg, e1)

\* _load_voices gets as far as open(config_path, "rb"): a parser can be
\* imported and the path was computed.
OpensFile(c, e) ==
  /\ e.toml
  /\ GetVoicesConfigPath(c, e).exc = "none"
  /\ GetVoicesConfigPath(c, e).val # "None"

\* The attribute states _load_voices is entered with: a new object, one
\* whose path was computed, one whose path was assigned by the caller.
ConfigStates ==
  { NewConfig,
    [NewConfig EXCEPT !.config_dir = "set", !.voices_config_path = "set"],
    [NewConfig EXCEPT !.voices_config_path = "set"] }

\* No load of the registry is under way; last is the last thing that
\* happened to the cache or the file.
Idle(last) == [pc |-> "idle", last |-> last, v |-> <<>>]

\* No call made yet.
NoCall == [fn |-> "none"]

\* --------------------------------- the output directory and its files

\* The directories an operator can work in: the computed default
\* (config.default_output_dir) and one the user entered in the add-on
\* preferences.
CustomDir == "custom_dir"

\* prefs.output_directory: cleared by the user, left at the property's
\* default (the computed default directory) or set to another directory.
Preferences == {"", OutputDir, CustomDir}

\* The directory the generation batch hands to its worker.
GenerateOutputDir(output_directory) == OutputDir

\* The directory copy_path looks in.
CopyPathOutputDir(output_directory) == OutputDir

\* "prefs.output_directory or tts_config.get_default_output_dir()" in
\* export_list: tts_config is the Config object, which has no such
\* method, so that the right operand raises AttributeError.
ExportOutputDir(output_directory) ==
  IF output_directory # "" THEN output_directory ELSE "AttributeError"

\* "prefs.output_directory or tts_config.get_default_output_dir()" in
\* the cleanup operator, whose tts_config is the module of functions.
CleanupOutputDir(output_directory) ==
  IF output_directory # "" THEN output_directory ELSE OutputDir

\* A file on disk: its path and the time it was last written.
DirOfPath(path) == path[1]
BaseOfPath(path) == SubSeq(path, 3, Len(path))

\* os.path.join(output_dir, filename)
Join(output_dir, filename) == <<output_dir, "/">> \o filename

\* The time of a file whose time of writing is not followed.
NoTime == <<0, 0>>

\* The file the export writes by default: <blend name>_narration_list.json
\* in the output directory.
ExportFilename(output_dir) ==
  Join(output_dir, <<"untitled_narration_list", ".json">>)


\* The paths of the files fs.
Paths(fs) == {f.path : f \in fs}

\* os.path.exists(output_dir): the computed default is created when it is
\* computed; another directory exists once something was written to it.
DirExists(fs, output_dir) ==
  output_dir = OutputDir \/ \E f \in fs : DirOfPath(f.path) = output_dir

\* f.startswith("voc_") and f.endswith(".wav")
IsNarrationFile(filename) ==
  /\ Len(filename) >= 2
  /\ filename[1] = "voc_"
  /\ filename[Len(filename)] = ".wav"

\* get_all_narration_files(output_dir): the names, in no particular order.
GetAllNarrationFiles(fs, output_dir) ==
  IF ~DirExists(fs, output_dir) THEN {}
  ELSE { BaseOfPath(f.path) :
           f \in { g \in fs : /\ DirOfPath(g.path) = output_dir
                              /\ IsNarrationFile(BaseOfPath(g.path)) } }

\* The file at path is written at time t (created or overwritten).
WriteFile(fs, path, t) ==
  { f \in fs : f.path # path } \cup { [path |-> path, mtime |-> t] }

\* os.remove for each of the paths.
RemoveFiles(fs, paths) == { f \in fs : f.path \notin paths }

\* The order of the characters that occur in file names, by code point:
\* "." < digits < "_" < lower-case letters; the symbols ".wav" and "voc_"
\* stand where their first characters do.
CodeOrder ==
  <<".wav", "0", "1", "2", "3", "4", "5", "6", "7", "8", "9", "_",
    "a", "b", "c", "d", "e", "f", "voc_">>

Rank(c) == CHOOSE k \in 1..Len(CodeOrder) : CodeOrder[k] = c

\* a < b for two strings, as Python compares them.
RECURSIVE StrLess(_, _)
StrLess(a, b) ==
  IF b = <<>> THEN FALSE
  ELSE IF a = <<>> THEN TRUE
  ELSE IF Head(a) = Head(b) THEN StrLess(Tail(a), Tail(b))
  ELSE Rank(Head(a)) < Rank(Head(b))

\* Mutant: the first name of the sorted list is taken.
SortedFirst(names) ==
  CHOOSE n \in names : \A m \in names : m = n \/ StrLess(n, m)

\* sorted(files)[-1]
SortedLast(names) ==
  CHOOSE n \in names : \A m \in names : m = n \/ StrLess(m, n)

\* ------------------------------------------- the timeline's sound strips

\* f"Voc_{tts_id}"
SoundName(strip_id) == <<"Voc_">> \o strip_id

\* Mutant: no existing strip is found.
FindExistingNever(snds, ids, s) == 0

\* find_existing_audio_for_text(scene, text_strip): the index of the first
\* sound strip whose name contains "Voc_<tts_id>", 0 for None.
FindExistingAudioForText(snds, ids, s) ==
  IF ids[s] = NoId THEN 0
  ELSE LET hits == {k \in 1..Len(snds) :
                      Contains(snds[k].name, SoundName(ids[s]))} IN
    IF hits = {} THEN 0
    ELSE CHOOSE k \in hits : \A j \in hits : k <= j

\* sequences.remove(old_strip)
RemoveStrip(snds, k) ==
  [j \in 1..(Len(snds) - 1) |-> IF j < k THEN snds[j] ELSE snds[j + 1]]

\* One round of the loop that adds the sound strips: the old strip of the
\* text strip is removed, then new_sound is called, which raises when the
\* file is not there; the except clause appends to final_errors.
\* tl holds the sound strips, the ids, the strips created and the strips
\* whose insertion failed.
AddSoundStrip(tl, fs, result) ==
  LET ids1 == GetOrCreateStripId(tl.ids, result.strip)
      old == FindExistingAudioForText(tl.sounds, ids1, result.strip)
      snds1 == IF old # 0 THEN RemoveStrip(tl.sounds, old) ELSE tl.sounds
  IN IF result.filepath \in Paths(fs)
       THEN [sounds |-> Append(snds1,
                               [name |-> SoundName(ids1[result.strip]),
                                filepath |-> result.filepath]),
             ids |-> ids1,
             created |-> Append(tl.created, result.strip),
             errors |-> tl.errors]
       ELSE [sounds |-> snds1,
             ids |-> ids1,
             created |-> tl.created,
             errors |-> Append(tl.errors, result.strip)]

\* "for result in results"
RECURSIVE AddSoundStrips(_, _, _)
AddSoundStrips(tl, fs, results) ==
  IF results = <<>> THEN tl
  ELSE AddSoundStrips(AddSoundStrip(tl, fs, Head(results)), fs,
                      Tail(results))

\* The cleanup operator: the paths it removes.  Every narration file of
\* the directory that no sound strip uses.
UnusedNarrationPaths(fs, snds, output_dir) ==
  { Join(output_dir, n) : n \in GetAllNarrationFiles(fs, output_dir) }
    \ { snds[k].filepath : k \in 1..Len(snds) }

\* copy_path: the first selected text strip that has an id and a file
\* whose name contains the id; 0 when there is none.
RECURSIVE FirstWithFile(_, _, _)
FirstWithFile(sel, ids, names) ==
  IF sel = <<>> THEN 0
  ELSE IF /\ ids[Head(sel)] # NoId
          /\ \E n \in names : Contains(n, ids[Head(sel)])
         THEN Head(sel)
         ELSE FirstWithFile(Tail(sel), ids, names)

\* copy_path: the path put on the clipboard for strip s.
LatestPath(names, strip_id, output_dir) ==
  Join(output_dir, SortedLast({n \in names : Contains(n, strip_id)}))


\* No generation batch has been started.
\* made counts the calls of generate_audio_filename so far.
NoGen ==
  [phase |-> "none", kind |-> "none", pref |-> "", dir |-> "",
   todo |-> <<>>, results |-> <<>>, before |-> <<>>, created |-> <<>>,
   errors |-> <<>>, made |-> 0]

\* ------------------------------------------------------------------ state

VARIABLES
  nbatch,             \* invocations of the operator so far
  inv,                \* what the last invoke was called with
  ret,                \* what the last invoke/modal call returned
  mpc,                \* main thread: "none", "modal", "drain", "check"
  handler,            \* handler_instance: "none", "gtts", "pyttsx3", "cmd"
  selected_sequences, \* self.selected_sequences
  executor,           \* "none", "running", "shutdown"
  message_queue,      \* self.message_queue
  stop_event,         \* self.stop_event.is_set()
  timer,              \* self._timer is registered with the window manager
  collected_results,  \* self.collected_results
  collected_errors,   \* self.collected_errors
  critical_error,     \* self.critical_error is not None
  task_finished,      \* self.task_finished
  wpc,                \* worker: position in background_synthesis_task
  wi,                 \* worker: index into selected_sequences (1-based)
  emitted,            \* history: every message the worker put, in order
  consumed,           \* history: every message get_nowait returned, in order
  outcome,            \* history: per strip, what became of it in the worker:
                      \* "none", "skipped", "crashed" or an engine outcome
  stopMark,           \* history: terminal events emitted when stop was set
  finalized,          \* the finalization of this batch has run
  created_count,      \* finalization: sound strips created
  final_errors,       \* finalization: final_errors
  report,             \* finalization: the final report
  tts_id,             \* per text strip: its "tts_id" custom property
  clock,              \* time.time() at the last call that read it
  requests,           \* history: the generate_audio_filename calls made
  call,               \* the last call of a single function: what it was
                      \* called with and what came of it
  cfg,                \* the attributes of the module's Config object
  env,                \* the config directory, voices.toml, the TOML parser
  cpc,                \* where a load of the profile registry stands
  observed,           \* what the last read of config.voices returned
  reads,              \* history: the times a lazy load opened voices.toml
                      \* since reload_voices was last called
  output_directory,   \* prefs.output_directory
  files,              \* the files of the output directories
  sounds,             \* the sound strips of the timeline, in order
  clipboard,          \* context.window_manager.clipboard
  gen                 \* the generation batch, as the files and the
                      \* timeline see it

vars == <<nbatch, inv, ret, mpc, handler, selected_sequences, executor,
          message_queue, stop_event, timer, collected_results,
          collected_errors, critical_error, task_finished, wpc, wi, emitted,
          consumed, outcome, stopMark, finalized, created_count,
          final_errors, report, tts_id, clock, requests, call, cfg, env,
          cpc, observed, reads, output_directory, files, sounds, clipboard,
          gen>>

\* The state of one generation batch.
batchVars == <<nbatch, inv, ret, mpc, handler, selected_sequences, executor,
               message_queue, stop_event, timer, collected_results,
               collected_errors, critical_error, task_finished, wpc, wi,
               emitted, consumed, outcome, stopMark, finalized,
               created_count, final_errors, report>>

\* The state the batch does not touch: it belongs to the specifications
\* of the single functions below.
configVars == <<cfg, env, cpc, observed, reads>>

\* The files and the timeline.
timelineVars == <<output_directory, files, sounds, clipboard, gen>>

sideVars == <<clock, requests, call, cfg, env, cpc, observed, reads,
              output_directory, files, sounds, clipboard, gen>>

mainVars == <<nbatch, inv, ret, mpc, handler, selected_sequences, executor,
              timer, collected_results, collected_errors, critical_error,
              task_finished, consumed, finalized, created_count,
              final_errors, report>>

workerVars == <<wpc, wi, emitted, outcome>>

Init ==
  /\ nbatch = 0
  /\ inv = NoInput
  /\ ret = "NONE"
  /\ mpc = "none"
  /\ handler = "none"
  /\ selected_sequences = <<>>
  /\ executor = "none"
  /\ message_queue = <<>>
  /\ stop_event = FALSE
  /\ timer = FALSE
  /\ collected_results = <<>>
  /\ collected_errors = <<>>
  /\ critical_error = FALSE
  /\ task_finished = FALSE
  /\ wpc = "none"
  /\ wi = 0
  /\ emitted = <<>>
  /\ consumed = <<>>
  /\ outcome = [s \in Strips |-> "none"]
  /\ stopMark = -1
  /\ finalized = FALSE
  /\ created_count = 0
  /\ final_errors = <<>>
  /\ report = "none"
  /\ tts_id = [s \in Strips |-> NoId]
  /\ clock = Times[1]
  /\ requests = <<>>
  /\ call = NoCall
  /\ cfg = NewConfig
  /\ env = [dir |-> "absent", writable |-> TRUE, file |-> NoFile,
            toml |-> TRUE]
  /\ cpc = Idle("none")
  /\ observed = [state |-> "none", val |-> <<>>]
  /\ reads = 0
  /\ output_directory = OutputDir
  /\ files = {}
  /\ sounds = <<>>
  /\ clipboard = <<>>
  /\ gen = NoGen

\* ----------------------------------------------------------------- invoke

\* The operator is invoked from the panel button on a fresh operator
\* instance, while no instance is modal.
CanInvoke ==
  /\ mpc = "none"
  /\ ret = "NONE"
  /\ nbatch < MaxBatches

\* invoke returns RUNNING_MODAL: executor, queue and stop flag are created,
\* the lists are initialized, the task is submitted, the timer is added.
InvokeRunning ==
  /\ CanInvoke
  /\ \E inp \in InvokeInputs :
    /\ InvokeStarts(inp)
    /\ nbatch' = nbatch + 1
    /\ inv' = inp
    /\ handler' = HandlerKind(HandlerModuleName(Voices[inp.profile]))
    /\ selected_sequences' = SelectedValid(inp.sel)
    /\ executor' = "running"
    /\ message_queue' = <<>>
    /\ stop_event' = FALSE
    /\ collected_results' = <<>>
    /\ collected_errors' = <<>>
    /\ critical_error' = FALSE
    /\ task_finished' = FALSE
    /\ wpc' = "start"
    /\ timer' = TRUE
    /\ mpc' = "modal"
    /\ ret' = "RUNNING_MODAL"
    /\ UNCHANGED <<wi, emitted, consumed, outcome, stopMark, finalized,
                   created_count, final_errors, report>>
  /\ UNCHANGED tts_id
  /\ UNCHANGED sideVars

\* invoke returns CANCELLED from one of its checks or its except clause:
\* nothing of the batch has been created.
InvokeCancelled ==
  /\ CanInvoke
  /\ \E inp \in InvokeInputs :
    /\ ~InvokeStarts(inp)
    /\ nbatch' = nbatch + 1
    /\ inv' = inp
    /\ ret' = "CANCELLED"
    /\ UNCHANGED <<mpc, handler, selected_sequences, executor,
                   message_queue, stop_event, timer, collected_results,
                   collected_errors, critical_error, task_finished, wpc, wi,
                   emitted, consumed, outcome, stopMark, finalized,
                   created_count, final_errors, report>>
  /\ UNCHANGED tts_id
  /\ UNCHANGED sideVars

\* invoke or modal has returned CANCELLED or FINISHED and the worker thread
\* has exited: the host frees the operator instance, and with it the
\* batch's queue, flag and lists.
OperatorFreed ==
  /\ mpc = "none"
  /\ ret \in {"CANCELLED", "FINISHED"}
  /\ wpc \in {"none", "done", "raised"}
  /\ inv' = NoInput
  /\ ret' = "NONE"
  /\ handler' = "none"
  /\ selected_sequences' = <<>>
  /\ executor' = "none"
  /\ message_queue' = <<>>
  /\ stop_event' = FALSE
  /\ collected_results' = <<>>
  /\ collected_errors' = <<>>
  /\ critical_error' = FALSE
  /\ task_finished' = FALSE
  /\ wpc' = "none"
  /\ wi' = 0
  /\ emitted' = <<>>
  /\ consumed' = <<>>
  /\ outcome' = [s \in Strips |-> "none"]
  /\ stopMark' = -1
  /\ finalized' = FALSE
  /\ created_count' = 0
  /\ final_errors' = <<>>
  /\ report' = "none"
  /\ UNCHANGED <<nbatch, mpc, timer>>
  /\ UNCHANGED tts_id
  /\ UNCHANGED sideVars

\* ------------------------------------- background_synthesis_task (worker)

\* message_queue.put(m)
Put(msgs) ==
  /\ message_queue' = message_queue \o msgs
  /\ emitted' = emitted \o msgs

N == Len(selected_sequences)

\* Mutant: the loop goes through the list from its end.
CurReversed == selected_sequences[N + 1 - wi]


\* The strip the loop is at.
Cur == selected_sequences[wi]

\* What the engine behind the synthesizer does with one text:
\*   "written": it completes and the output file exists;
\*   "failed":  it raises, or the external process exits non-zero or cannot
\*              be found;
\*   "nofile":  it completes without error and writes no file.
EngineOutcomes == {"written", "failed", "nofile"}

\* What handler_instance.synthesize does for an engine outcome: "raise", or
\* the value it returns.  The in-process handlers catch every exception and
\* return False, and otherwise return os.path.exists(output_path); the
\* external-process synthesizer raises RuntimeError and returns None.
Synthesize(kind, e) ==
  IF kind = "cmd"
    THEN (IF e = "failed" THEN "raise" ELSE "None")
    ELSE (IF e = "written" THEN "True" ELSE "False")

\* Mutant: the per-item except clause swallows the exception.
TerminalMsgsNoError(how, s) ==
  IF how = "raise" THEN <<>> ELSE <<Msg(MSG_RESULT, s)>>

\* The terminal message of an item: the except clause of the per-item try
\* puts MSG_ERROR, the try body puts MSG_RESULT after synthesize returned
\* (whatever it returned).
TerminalMsgs(how, s) ==
  IF how = "raise" THEN <<Msg(MSG_ERROR, s)>> ELSE <<Msg(MSG_RESULT, s)>>

\* Mutant: an item's failure ends the loop.
AfterTerminalAbort(how) == IF how = "raise" THEN "after_loop" ELSE "progress"

\* Where the worker goes after an item's terminal message: on to the
\* progress message of the same iteration.
AfterTerminal(how) == "progress"

\* Mutant: the stop flag is tested before the first item only.
LoopCancelledFirstOnly == stop_event /\ wi = 1

\* The test at the top of each iteration: stop_event.is_set().
LoopCancelled == stop_event

\* The messages the outer except clause puts first.
CriticalMsgs == <<Msg(MSG_CRITICAL_ERROR, 0)>>

\* Mutant: the outer except clause puts MSG_CRITICAL_ERROR only.
CriticalFinishedMsgsNone == <<>>

\* The messages the outer except clause puts after MSG_CRITICAL_ERROR.
CriticalFinishedMsgs == <<Msg(MSG_FINISHED, 0)>>

\* The messages put after the loop ended without break or return.
AfterLoopMsgs == IF ~stop_event THEN <<Msg(MSG_FINISHED, 0)>> ELSE <<>>

\* os.makedirs(output_dir, exist_ok=True), before the try statement.
WorkerMakedirs ==
  /\ wpc = "start"
  /\ wpc' = "loop"
  /\ wi' = 1
  /\ UNCHANGED <<emitted, outcome, message_queue, stop_event, stopMark>>
  /\ UNCHANGED mainVars
  /\ UNCHANGED tts_id
  /\ UNCHANGED sideVars

\* os.makedirs raises: the exception leaves the function, the future is
\* done and holds the exception.
WorkerMakedirsRaises ==
  /\ wpc = "start"
  /\ wpc' = "raised"
  /\ UNCHANGED <<wi, emitted, outcome, message_queue, stop_event, stopMark>>
  /\ UNCHANGED mainVars
  /\ UNCHANGED tts_id
  /\ UNCHANGED sideVars

\* The for statement takes the next strip and tests the stop flag; when the
\* flag is set it puts MSG_FINISHED and returns.
WorkerLoopTop ==
  /\ wpc = "loop"
  /\ IF wi > N
       THEN /\ wpc' = "after_loop"
            /\ UNCHANGED <<emitted, message_queue>>
       ELSE IF LoopCancelled
         THEN /\ Put(<<Msg(MSG_FINISHED, 0)>>)
              /\ wpc' = "ret"
         ELSE /\ wpc' = "body"
              /\ UNCHANGED <<emitted, message_queue>>
  /\ UNCHANGED <<wi, outcome, stop_event, stopMark>>
  /\ UNCHANGED mainVars
  /\ UNCHANGED tts_id
  /\ UNCHANGED sideVars

\* The strip is read (type, text) and its output path is derived.  The
\* strip is live host data the user can edit while the operator passes
\* events through: its text may be blank by now (continue).
WorkerSkip ==
  /\ wpc = "body"
  /\ outcome' = [outcome EXCEPT ![Cur] = "skipped"]
  /\ wi' = wi + 1
  /\ wpc' = "loop"
  /\ UNCHANGED <<emitted, message_queue, stop_event, stopMark>>
  /\ UNCHANGED mainVars
  /\ UNCHANGED tts_id
  /\ UNCHANGED sideVars

\* Reading the strip or generate_audio_filename raises: the exception is
\* outside the per-item try and reaches the outer except clause.
WorkerBodyRaises ==
  /\ wpc = "body"
  /\ outcome' = [outcome EXCEPT ![Cur] = "crashed"]
  /\ wpc' = "crit"
  /\ UNCHANGED <<wi, emitted, message_queue, stop_event, stopMark>>
  /\ UNCHANGED mainVars
  /\ UNCHANGED tts_id
  /\ UNCHANGED sideVars

\* generate_audio_filename gives the strip its id when it has none, and
\* handler_instance.synthesize(strip.text, filepath) is called.
WorkerCallSynthesize ==
  /\ wpc = "body"
  /\ tts_id' = GetOrCreateStripId(tts_id, Cur)
  /\ wpc' = "synth"
  /\ UNCHANGED <<wi, emitted, outcome, message_queue, stop_event, stopMark>>
  /\ UNCHANGED mainVars
  /\ UNCHANGED sideVars

\* synthesize returns or raises, and the item's terminal message is put.
WorkerSynthesized ==
  /\ wpc = "synth"
  /\ \E e \in EngineOutcomes :
       /\ outcome' = [outcome EXCEPT ![Cur] = e]
       /\ Put(TerminalMsgs(Synthesize(handler, e), Cur))
       /\ wpc' = AfterTerminal(Synthesize(handler, e))
  /\ UNCHANGED <<wi, stop_event, stopMark>>
  /\ UNCHANGED mainVars
  /\ UNCHANGED tts_id
  /\ UNCHANGED sideVars

\* Mutant: the iteration puts no progress message.
ProgressMsgsNone(s) == <<>>

\* The progress message of an iteration, put after the try statement of
\* the item (it carries has_error, which is known only then).
ProgressMsgs(s) == <<Msg(MSG_PROGRESS, s)>>

\* The progress message of the iteration.
WorkerProgress ==
  /\ wpc = "progress"
  /\ Put(ProgressMsgs(Cur))
  /\ wi' = wi + 1
  /\ wpc' = "loop"
  /\ UNCHANGED <<outcome, stop_event, stopMark>>
  /\ UNCHANGED mainVars
  /\ UNCHANGED tts_id
  /\ UNCHANGED sideVars

\* After the loop: "if not stop_event.is_set(): put MSG_FINISHED".
WorkerAfterLoop ==
  /\ wpc = "after_loop"
  /\ Put(AfterLoopMsgs)
  /\ wpc' = "ret"
  /\ UNCHANGED <<wi, outcome, stop_event, stopMark>>
  /\ UNCHANGED mainVars
  /\ UNCHANGED tts_id
  /\ UNCHANGED sideVars

\* The outer except clause: put MSG_CRITICAL_ERROR ...
WorkerCritical ==
  /\ wpc = "crit"
  /\ Put(CriticalMsgs)
  /\ wpc' = "crit_finished"
  /\ UNCHANGED <<wi, outcome, stop_event, stopMark>>
  /\ UNCHANGED mainVars
  /\ UNCHANGED tts_id
  /\ UNCHANGED sideVars

\* ... and then MSG_FINISHED.
WorkerCriticalFinished ==
  /\ wpc = "crit_finished"
  /\ Put(CriticalFinishedMsgs)
  /\ wpc' = "ret"
  /\ UNCHANGED <<wi, outcome, stop_event, stopMark>>
  /\ UNCHANGED mainVars
  /\ UNCHANGED tts_id
  /\ UNCHANGED sideVars

\* The function returns and the executor marks the future done.
WorkerReturn ==
  /\ wpc = "ret"
  /\ wpc' = "done"
  /\ UNCHANGED <<wi, emitted, outcome, message_queue, stop_event, stopMark>>
  /\ UNCHANGED mainVars
  /\ UNCHANGED tts_id
  /\ UNCHANGED sideVars

Worker ==
  \/ WorkerMakedirs
  \/ WorkerMakedirsRaises
  \/ WorkerLoopTop
  \/ WorkerSkip
  \/ WorkerBodyRaises
  \/ WorkerCallSynthesize
  \/ WorkerSynthesized
  \/ WorkerProgress
  \/ WorkerAfterLoop
  \/ WorkerCritical
  \/ WorkerCriticalFinished
  \/ WorkerReturn

\* ------------------------------------------------------------------ modal

TerminalTypes == {MSG_RESULT, MSG_ERROR}

\* The number of messages of s whose type is in types.
Count(s, types) == Cardinality({k \in 1..Len(s) : s[k].type \in types})

\* A TIMER event of the operator's timer reaches modal: the handler enters
\* its drain loop.  The window manager sends the event only while the
\* timer is registered.
ModalTimer ==
  /\ mpc = "modal"
  /\ timer
  /\ mpc' = "drain"
  /\ UNCHANGED <<nbatch, inv, ret, handler, selected_sequences, executor,
                 timer, collected_results, collected_errors, critical_error,
                 task_finished, consumed, finalized, created_count,
                 final_errors, report>>
  /\ UNCHANGED <<message_queue, stop_event, stopMark>>
  /\ UNCHANGED workerVars
  /\ UNCHANGED tts_id
  /\ UNCHANGED sideVars

\* One round of the drain loop: get_nowait returns a message, which is
\* dispatched on its type.
ModalDrain ==
  /\ mpc = "drain"
  /\ message_queue # <<>>
  /\ LET m == Head(message_queue) IN
       /\ message_queue' = Tail(message_queue)
       /\ consumed' = Append(consumed, m)
       /\ collected_errors' =
            IF m.type = MSG_ERROR
              THEN Append(collected_errors, m) ELSE collected_errors
       /\ critical_error' = (critical_error \/ m.type = MSG_CRITICAL_ERROR)
       /\ collected_results' =
            IF m.type = MSG_RESULT
              THEN Append(collected_results, m) ELSE collected_results
       /\ task_finished' = (task_finished \/ m.type = MSG_FINISHED)
  /\ UNCHANGED <<nbatch, inv, ret, mpc, handler, selected_sequences,
                 executor, timer, finalized, created_count, final_errors,
                 report>>
  /\ UNCHANGED <<stop_event, stopMark>>
  /\ UNCHANGED workerVars
  /\ UNCHANGED tts_id
  /\ UNCHANGED sideVars

\* get_nowait raises queue.Empty: the drain loop is left.
ModalDrainEmpty ==
  /\ mpc = "drain"
  /\ message_queue = <<>>
  /\ mpc' = "check"
  /\ UNCHANGED <<nbatch, inv, ret, handler, selected_sequences, executor,
                 timer, collected_results, collected_errors, critical_error,
                 task_finished, consumed, finalized, created_count,
                 final_errors, report>>
  /\ UNCHANGED <<message_queue, stop_event, stopMark>>
  /\ UNCHANGED workerVars
  /\ UNCHANGED tts_id
  /\ UNCHANGED sideVars

\* self.future.done()
FutureDone == wpc \in {"done", "raised"}

\* The test that decides whether the batch is over.
BatchOver == FutureDone \/ task_finished

\* sequences.new_sound(filepath=...) raises when the file does not exist;
\* the file of a result exists when the engine wrote it.
FileExists(s) == outcome[s] = "written"

\* The loop over the results: the strips for which a sound strip is made.
RECURSIVE Created(_)
Created(results) ==
  IF results = <<>> THEN <<>>
  ELSE (IF FileExists(Head(results).strip)
          THEN <<Head(results).strip>> ELSE <<>>) \o Created(Tail(results))

\* The loop over the results: the errors appended to final_errors.
RECURSIVE InsertErrors(_)
InsertErrors(results) ==
  IF results = <<>> THEN <<>>
  ELSE (IF FileExists(Head(results).strip)
          THEN <<>> ELSE <<Msg("insert_error", Head(results).strip)>>)
       \o InsertErrors(Tail(results))

FinalErrors == collected_errors \o InsertErrors(collected_results)

\* The final report.
FinalReport ==
  IF stop_event THEN "cancelled"
  ELSE IF critical_error THEN "critical"
  ELSE IF FinalErrors # <<>> THEN "errors"
  ELSE "info"

\* What the final report appends to the log file (vocal_vse.log in the
\* temporary directory): the branch for final_errors writes every entry of
\* final_errors, the other branches write nothing.  rep is the branch
\* taken.  (The log is taken to be writable.)
LogAppended(rep, errs) == IF rep = "errors" THEN errs ELSE <<>>

\* The messages of the report of branch rep: the cancellation warning, the
\* critical error, the error summary or the count of narrations.
Reported(rep) ==
  CASE rep = "cancelled" -> {"WARNING cancelled"}
    [] rep = "critical"  -> {"ERROR critical"}
    [] rep = "errors"    -> {"ERROR summary"}
    [] rep = "info"      -> {"INFO generated"}
    [] OTHER             -> {}

\* The batch is over: the timer is removed, the executor is shut down, the
\* sound strips are created, the report is made, modal returns FINISHED.
ModalFinalize ==
  /\ mpc = "check"
  /\ BatchOver
  /\ timer' = FALSE
  /\ executor' = "shutdown"
  /\ created_count' = Len(Created(collected_results))
  /\ final_errors' = FinalErrors
  /\ report' = FinalReport
  /\ tts_id' = GetOrCreateAll(tts_id, [k \in 1..Len(collected_results) |->
                                        collected_results[k].strip])
  /\ finalized' = TRUE
  /\ mpc' = "none"
  /\ ret' = "FINISHED"
  /\ UNCHANGED <<nbatch, inv, handler, selected_sequences, collected_results,
                 collected_errors, critical_error, task_finished, consumed>>
  /\ UNCHANGED <<message_queue, stop_event, stopMark>>
  /\ UNCHANGED workerVars
  /\ UNCHANGED sideVars

\* The batch is not over: modal returns PASS_THROUGH and stays modal.
ModalContinue ==
  /\ mpc = "check"
  /\ ~BatchOver
  /\ mpc' = "modal"
  /\ ret' = "PASS_THROUGH"
  /\ UNCHANGED <<nbatch, inv, handler, selected_sequences, executor, timer,
                 collected_results, collected_errors, critical_error,
                 task_finished, consumed, finalized, created_count,
                 final_errors, report>>
  /\ UNCHANGED <<message_queue, stop_event, stopMark>>
  /\ UNCHANGED workerVars
  /\ UNCHANGED tts_id
  /\ UNCHANGED sideVars

\* An ESC event reaches modal: the stop flag is set, the timer is removed,
\* modal returns RUNNING_MODAL.
ModalEsc ==
  /\ mpc = "modal"
  /\ stop_event' = TRUE
  /\ stopMark' = IF stop_event THEN stopMark ELSE Count(emitted, TerminalTypes)
  /\ timer' = FALSE
  /\ ret' = "RUNNING_MODAL"
  /\ UNCHANGED <<nbatch, inv, mpc, handler, selected_sequences, executor,
                 collected_results, collected_errors, critical_error,
                 task_finished, consumed, finalized, created_count,
                 final_errors, report>>
  /\ UNCHANGED message_queue
  /\ UNCHANGED workerVars
  /\ UNCHANGED tts_id
  /\ UNCHANGED sideVars

\* The TIMER branch of modal.
ModalTimerBranch ==
  \/ ModalTimer
  \/ ModalDrain
  \/ ModalDrainEmpty
  \/ ModalFinalize
  \/ ModalContinue

Modal == ModalTimerBranch \/ ModalEsc

Invoke == InvokeRunning \/ InvokeCancelled

Next == Invoke \/ Worker \/ Modal \/ OperatorFreed

Spec == Init /\ [][Next]_vars

\* The executor runs the submitted task and every statement of the worker
\* terminates; the window manager delivers the ticks of a registered timer
\* and the handler it called runs to its return.
FairSpec == Spec /\ WF_vars(Worker) /\ WF_vars(ModalTimerBranch)


\* ------------------------------------------ generate_audio_filename alone

\* generate_audio_filename(output_dir, strip), called by the worker of
\* invocation b for strip s at one of the times not yet past.  A worker
\* comes to each of its strips once.
GenerateAudioFilename(b, s) ==
  /\ Len(requests) < MaxRequests
  /\ \A k \in 1..Len(requests) :
       ~(requests[k].batch = b /\ requests[k].strip = s)
  /\ \E k \in 1..Len(Times) :
       /\ \A j \in 1..Len(Times) : Times[j] = clock => j <= k
       /\ clock' = Times[k]
       /\ tts_id' = GetOrCreateStripId(tts_id, s)
       /\ requests' =
            Append(requests,
                   [batch |-> b, strip |-> s,
                    path |-> AudioFilename(OutputDir,
                                           GetOrCreateStripId(tts_id, s)[s],
                                           Times[k])])
  /\ UNCHANGED call
  /\ UNCHANGED configVars
  /\ UNCHANGED batchVars
  /\ UNCHANGED timelineVars

NamerNext == \E b \in Batches, s \in Strips : GenerateAudioFilename(b, s)

NamerSpec == Init /\ [][NamerNext]_vars

\* ------------------------------------------------- single function calls

\* Each function is called once, on a fresh object, with one of its inputs.

\* Synthesizer(bin, args)._prepare_command(output_path)
CallPrepareCommand ==
  /\ call = NoCall
  /\ \E bin \in Bins, args \in ArgTemplates, output_path \in OutputPaths :
       call' = [fn |-> "_prepare_command", bin |-> bin, args |-> args,
                output_path |-> output_path,
                result |-> PrepareCommand(bin, args, output_path)]
  /\ UNCHANGED <<tts_id, clock, requests>>
  /\ UNCHANGED configVars
  /\ UNCHANGED batchVars
  /\ UNCHANGED timelineVars

\* Synthesizer(bin, args).synthesize(text, output_path)
CallCmdSynthesize ==
  /\ call = NoCall
  /\ \E bin \in Bins, args \in SynthArgs, output_path \in OutputPaths :
       \E ev \in CmdEnvs(output_path) :
         call' = [fn |-> "cmd.synthesize", bin |-> bin, args |-> args,
                  output_path |-> output_path, env |-> ev,
                  result |-> CmdSynthesize(bin, args, output_path, ev)]
  /\ UNCHANGED <<tts_id, clock, requests>>
  /\ UNCHANGED configVars
  /\ UNCHANGED batchVars
  /\ UNCHANGED timelineVars

\* gtts.Handler().synthesize(text, output_path)
CallGttsSynthesize ==
  /\ call = NoCall
  /\ \E output_path \in OutputPaths :
       \E ev \in EngineEnvs(output_path) :
         call' = [fn |-> "gtts.synthesize", output_path |-> output_path,
                  env |-> ev, result |-> GttsSynthesize(output_path, ev)]
  /\ UNCHANGED <<tts_id, clock, requests>>
  /\ UNCHANGED configVars
  /\ UNCHANGED batchVars
  /\ UNCHANGED timelineVars

\* pyttsx3.Handler().synthesize(text, output_path)
CallPyttsx3Synthesize ==
  /\ call = NoCall
  /\ \E output_path \in OutputPaths :
       \E ev \in EngineEnvs(output_path) :
         call' = [fn |-> "pyttsx3.synthesize", output_path |-> output_path,
                  env |-> ev,
                  result |-> Pyttsx3Synthesize(output_path, ev)]
  /\ UNCHANGED <<tts_id, clock, requests>>
  /\ UNCHANGED configVars
  /\ UNCHANGED batchVars
  /\ UNCHANGED timelineVars

\* invoke resolves the synthesizer reference of the profile.
CallResolve ==
  /\ call = NoCall
  /\ \E spec \in References :
       call' = [fn |-> "resolve", spec |-> spec, result |-> Resolve(spec)]
  /\ UNCHANGED <<tts_id, clock, requests>>
  /\ UNCHANGED configVars
  /\ UNCHANGED batchVars
  /\ UNCHANGED timelineVars

\* config._load_voices()
CallLoadVoices ==
  /\ call = NoCall
  /\ \E c \in ConfigStates, e \in Envs :
       /\ c.config_dir = "set" => e.dir = "exists"
       /\ call' = [fn |-> "_load_voices", cfg |-> c, env |-> e,
                   result |-> LoadVoices(c, e)]
  /\ UNCHANGED <<tts_id, clock, requests>>
  /\ UNCHANGED configVars
  /\ UNCHANGED batchVars
  /\ UNCHANGED timelineVars

FnNext ==
  \/ CallPrepareCommand
  \/ CallResolve
  \/ CallLoadVoices
  \/ CallCmdSynthesize
  \/ CallGttsSynthesize
  \/ CallPyttsx3Synthesize

FnSpec == Init /\ [][FnNext]_vars

\* ------------------------------------- the Config object and its readers

\* The lazy loads of the registry that the model follows between two
\* calls of reload_voices.
MaxReads == 2

\* The file, the directory or the parser changes while no load is under
\* way: the user edits voices.toml, deletes it, installs tomli.
EnvironmentChanges ==
  /\ cpc.pc = "idle"
  /\ \E e \in Envs :
       /\ e # env
       /\ cfg.config_dir = "set" => e.dir = "exists"
       /\ env' = e
  /\ cpc' = Idle("env")
  /\ UNCHANGED <<cfg, observed, reads>>
  /\ UNCHANGED <<tts_id, clock, requests, call>>
  /\ UNCHANGED batchVars
  /\ UNCHANGED timelineVars

\* A read of config.voices finds no such attribute: __getattr__ stores the
\* placeholder None under the name.
GetattrVoicesBegin ==
  /\ cpc.pc = "idle"
  /\ cfg.voices = "unset"
  /\ reads < MaxReads
  /\ cfg' = [cfg EXCEPT !.voices = "None"]
  /\ cpc' = [pc |-> "getattr_call", last |-> cpc.last, v |-> <<>>]
  /\ UNCHANGED <<env, observed, reads>>
  /\ UNCHANGED <<tts_id, clock, requests, call>>
  /\ UNCHANGED batchVars
  /\ UNCHANGED timelineVars

\* __getattr__ calls the initializer, _get_voices, which is _load_voices;
\* when it raises, the exception goes to the reader and the placeholder
\* stays.
GetattrVoicesLoad ==
  /\ cpc.pc = "getattr_call"
  /\ reads' = reads + (IF OpensFile(cfg, env) THEN 1 ELSE 0)
  /\ LET r == LoadVoices(cfg, env) IN
       /\ cfg' = r.cfg
       /\ env' = r.env
       /\ IF r.exc # "none"
            THEN /\ cpc' = Idle("raised")
                 /\ observed' = [state |-> "raised", val |-> <<>>]
            ELSE /\ cpc' = [pc |-> "getattr_loaded", last |-> cpc.last,
                            v |-> r.val]
                 /\ UNCHANGED observed
  /\ UNCHANGED <<tts_id, clock, requests, call>>
  /\ UNCHANGED batchVars
  /\ UNCHANGED timelineVars

\* Mutant: __getattr__ returns the value without storing it.
GetattrVoicesEndNoStore ==
  /\ cpc.pc = "getattr_loaded"
  /\ cfg' = [cfg EXCEPT !.voices = "unset"]
  /\ observed' = [state |-> "set", val |-> cpc.v]
  /\ cpc' = Idle("load")
  /\ UNCHANGED <<env, reads>>
  /\ UNCHANGED <<tts_id, clock, requests, call>>
  /\ UNCHANGED batchVars
  /\ UNCHANGED timelineVars

\* __getattr__ stores the value and returns it to the reader.
GetattrVoicesEnd ==
  /\ cpc.pc = "getattr_loaded"
  /\ cfg' = [cfg EXCEPT !.voices = "set", !.voices_val = cpc.v]
  /\ observed' = [state |-> "set", val |-> cpc.v]
  /\ cpc' = Idle("load")
  /\ UNCHANGED <<env, reads>>
  /\ UNCHANGED <<tts_id, clock, requests, call>>
  /\ UNCHANGED batchVars
  /\ UNCHANGED timelineVars

\* reload_voices: the right-hand side, self._load_voices(); when it raises
\* nothing is assigned.
ReloadVoicesLoad ==
  /\ cpc.pc = "idle"
  /\ reads' = 0
  /\ LET r == LoadVoices(cfg, env) IN
       /\ cfg' = r.cfg
       /\ env' = r.env
       /\ cpc' = IF r.exc # "none" THEN Idle("raised")
                 ELSE [pc |-> "reload_loaded", last |-> cpc.last, v |-> r.val]
  /\ UNCHANGED observed
  /\ UNCHANGED <<tts_id, clock, requests, call>>
  /\ UNCHANGED batchVars
  /\ UNCHANGED timelineVars

\* reload_voices: the assignment to self.voices.
ReloadVoicesAssign ==
  /\ cpc.pc = "reload_loaded"
  /\ cfg' = [cfg EXCEPT !.voices = "set", !.voices_val = cpc.v]
  /\ cpc' = Idle("reload")
  /\ UNCHANGED <<env, observed, reads>>
  /\ UNCHANGED <<tts_id, clock, requests, call>>
  /\ UNCHANGED batchVars
  /\ UNCHANGED timelineVars

\* A read of config.voices finds the attribute in the instance dictionary
\* and returns what is stored there; another thread may do so while a load
\* is under way, and any reader after a load.
ReadVoices ==
  /\ cfg.voices # "unset"
  /\ observed' = [state |-> cfg.voices, val |-> cfg.voices_val]
  /\ UNCHANGED <<cfg, env, cpc, reads>>
  /\ UNCHANGED <<tts_id, clock, requests, call>>
  /\ UNCHANGED batchVars
  /\ UNCHANGED timelineVars

ConfigNext ==
  \/ EnvironmentChanges
  \/ GetattrVoicesBegin
  \/ GetattrVoicesLoad
  \/ GetattrVoicesEnd
  \/ ReloadVoicesLoad
  \/ ReloadVoicesAssign
  \/ ReadVoices

ConfigSpec == Init /\ [][ConfigNext]_vars

\* ------------------------------------------- the files and the timeline

\* The operators that read or write the output directory and the sound
\* strips: the generation batch (its worker's iterations and its
\* finalization), Cleanup Unused Files, Export Narrations, and the
\* user's edits of the preference.  The modal operator
\* passes every event but TIMER and ESC through, so the other operators
\* run between the worker's iterations and the finalization.

\* The lists of text strips an operator finds selected, in timeline order.
StripLists == {SelectedValid(sel) : sel \in Selections} \ {<<>>}

\* The items the batches of one run synthesize, all in all.
MaxItems == 2

\* The kinds of synthesizer a batch runs with.
Kinds == {"gtts", "cmd"}

\* The user edits the output directory in the add-on preferences.
SetOutputDirectory ==
  /\ \E p \in Preferences \ {output_directory} : output_directory' = p
  /\ UNCHANGED <<files, sounds, clipboard, gen>>
  /\ UNCHANGED <<tts_id, clock, requests, call>>
  /\ UNCHANGED <<cfg, env, cpc, observed, reads>>
  /\ UNCHANGED batchVars

\* invoke: the selected text strips and config.default_output_dir are
\* handed to the worker.
StartBatch ==
  /\ gen.phase \in {"none", "finalized"}
  /\ \E strips \in StripLists, kind \in Kinds :
       /\ gen.made + Len(strips) <= MaxItems
       /\ gen' = [NoGen EXCEPT !.phase = "running", !.kind = kind,
                               !.pref = output_directory,
                               !.dir = GenerateOutputDir(output_directory),
                               !.todo = strips, !.made = gen.made]
  /\ UNCHANGED <<output_directory, files, sounds, clipboard>>
  /\ UNCHANGED <<tts_id, clock, requests, call>>
  /\ UNCHANGED <<cfg, env, cpc, observed, reads>>
  /\ UNCHANGED batchVars

\* One iteration of the worker: generate_audio_filename, synthesize, and
\* the Result message unless synthesize raised.
WorkerItem ==
  /\ gen.phase = "running"
  /\ gen.todo # <<>>
  /\ \E k \in 1..Len(Times), e \in EngineOutcomes :
       LET s == Head(gen.todo)
           ids == GetOrCreateStripId(tts_id, s)
           filepath == AudioFilename(gen.dir, ids[s], Times[k])
       IN
       /\ \A j \in 1..Len(Times) : Times[j] = clock => j <= k
       /\ clock' = Times[k]
       /\ tts_id' = ids
       /\ files' = IF e = "written"
                     THEN WriteFile(files, filepath, Times[k]) ELSE files
       /\ gen' = [gen EXCEPT
                    !.todo = Tail(gen.todo),
                    !.made = @ + 1,
                    !.results =
                      IF Synthesize(gen.kind, e) = "raise" THEN @
                      ELSE Append(@, [strip |-> s, filepath |-> filepath,
                                      written |-> (e = "written")])]
  /\ UNCHANGED <<output_directory, sounds, clipboard>>
  /\ UNCHANGED <<requests, call>>
  /\ UNCHANGED <<cfg, env, cpc, observed, reads>>
  /\ UNCHANGED batchVars

\* The finalization of modal: the loop that adds the sound strips.
Finalize ==
  /\ gen.phase = "running"
  /\ gen.todo = <<>>
  /\ LET tl == AddSoundStrips([sounds |-> sounds, ids |-> tts_id,
                               created |-> <<>>, errors |-> <<>>],
                              files, gen.results)
     IN /\ sounds' = tl.sounds
        /\ tts_id' = tl.ids
        /\ gen' = [NoGen EXCEPT !.phase = "finalized",
                                !.results = gen.results,
                                !.before = sounds,
                                !.created = tl.created,
                                !.errors = tl.errors,
                                !.made = gen.made]
  /\ UNCHANGED <<output_directory, files, clipboard>>
  /\ UNCHANGED <<clock, requests, call>>
  /\ UNCHANGED <<cfg, env, cpc, observed, reads>>
  /\ UNCHANGED batchVars

\* Cleanup Unused Files: execute.
Cleanup ==
  /\ LET output_dir == CleanupOutputDir(output_directory) IN
       IF ~DirExists(files, output_dir)
         THEN UNCHANGED files
         ELSE files' =
                RemoveFiles(files,
                            UnusedNarrationPaths(files, sounds, output_dir))
  /\ UNCHANGED <<output_directory, sounds, clipboard, gen>>
  /\ UNCHANGED <<tts_id, clock, requests, call>>
  /\ UNCHANGED <<cfg, env, cpc, observed, reads>>
  /\ UNCHANGED batchVars

\* Export Narrations with the file name its dialog proposes: invoke
\* computes the audio output directory (and raises when the preference is
\* empty), execute writes the list there.
ExportNarrationList ==
  /\ ExportOutputDir(output_directory) # "AttributeError"
  /\ files' = WriteFile(files,
                        ExportFilename(ExportOutputDir(output_directory)),
                        NoTime)
  /\ UNCHANGED <<output_directory, sounds, clipboard, gen>>
  /\ UNCHANGED <<tts_id, clock, requests, call>>
  /\ UNCHANGED <<cfg, env, cpc, observed, reads>>
  /\ UNCHANGED batchVars


TimelineNext ==
  \/ SetOutputDirectory
  \/ StartBatch
  \/ WorkerItem
  \/ Finalize
  \/ Cleanup
  \/ ExportNarrationList

TimelineSpec == Init /\ [][TimelineNext]_vars


\* Copy Audio Path: the selected text strips, blank or not, in timeline
\* order.
RECURSIVE SelectedTextFrom(_, _)
SelectedTextFrom(sel, s) ==
  IF s > MaxStrips THEN <<>>
  ELSE (IF sel[s] # "unsel" THEN <<s>> ELSE <<>>)
         \o SelectedTextFrom(sel, s + 1)

\* Copy Audio Path: execute.  call records the selection, what was
\* returned and the clipboard before and after.
CopyAudioPath ==
  /\ \E sel \in Selections :
       LET strips == SelectedTextFrom(sel, 1)
           output_dir == CopyPathOutputDir(output_directory)
           names == GetAllNarrationFiles(files, output_dir)
           s == FirstWithFile(strips, tts_id, names)
       IN /\ clipboard' = IF s = 0 THEN clipboard
                          ELSE LatestPath(names, tts_id[s], output_dir)
          /\ call' = [fn |-> "copy_audio_path", sel |-> strips,
                      ret |-> IF s = 0 THEN "CANCELLED" ELSE "FINISHED",
                      before |-> clipboard, after |-> clipboard']
  /\ UNCHANGED <<output_directory, files, sounds, gen>>
  /\ UNCHANGED <<tts_id, clock, requests>>
  /\ UNCHANGED <<cfg, env, cpc, observed, reads>>
  /\ UNCHANGED batchVars

\* Generation batches and Copy Audio Path, with the preference left as it
\* is.
CopyNext ==
  \/ StartBatch
  \/ WorkerItem
  \/ Finalize
  \/ CopyAudioPath

CopySpec == Init /\ [][CopyNext]_vars



\* ================================================================= claims

Finished == {MSG_FINISHED}

\* The worker function has returned.
WorkerReturned == wpc \in {"ret", "done"}

\* The terminal messages the worker put for strip s.
TerminalsOf(s) ==
  {k \in 1..Len(emitted) :
     emitted[k].type \in TerminalTypes /\ emitted[k].strip = s}

\* The strips for which synthesize was called and has returned or raised.
Attempted == {s \in Strips : outcome[s] \in EngineOutcomes}

\* Every item the loop came to was synthesized (it succeeded or failed):
\* none was blank by then, none raised outside the per-item guard.
ItemsOnlySynthesized ==
  \A s \in Strips : outcome[s] \notin {"skipped", "crashed"}

\* C1: a worker that entered its loop puts exactly one Finished message,
\* and Finished is the last message it puts, whether the items succeeded or
\* failed and whenever the stop flag was set.
C1_ExactlyOneFinishedLast ==
  /\ \A k \in 1..Len(emitted) :
       emitted[k].type = MSG_FINISHED => k = Len(emitted)
  /\ (WorkerReturned /\ ItemsOnlySynthesized)
       => Count(emitted, Finished) = 1

\* C2: the finalization of a batch (whose worker did not die of an
\* exception) runs only after the caller has taken the Finished message
\* from the queue.
C2_FinalizedOnlyAfterFinished ==
  (finalized /\ wpc # "raised") => task_finished

\* C3: the caller consumes the worker's messages in emission order, each
\* once, and has consumed all of them when the finalization runs: every
\* Result emitted is in collected_results, every Error in collected_errors.
C3_AllConsumedBeforeFinalization ==
  /\ Len(consumed) <= Len(emitted)
  /\ consumed = SubSeq(emitted, 1, Len(consumed))
  /\ finalized =>
       /\ consumed = emitted
       /\ Len(collected_results) = Count(emitted, {MSG_RESULT})
       /\ Len(collected_errors) = Count(emitted, {MSG_ERROR})

\* C4: every started batch is eventually finalized (modal returns
\* FINISHED), also after ESC.
C4_EveryBatchFinalized == (mpc # "none") ~> (ret = "FINISHED")

\* C5 (first part): once the stop flag has been set the worker emits at
\* most one further terminal event.
C5_AtMostOneAfterStop ==
  stop_event => Count(emitted, TerminalTypes) - stopMark <= 1

\* C5 (second part): a synthesize call in flight is never interrupted: it
\* ends only by returning or raising, with the item's terminal event, also
\* when the stop flag is set meanwhile.
C5_InFlightCompletes ==
  (wpc = "synth" /\ wpc' # "synth") =>
     /\ Cur \in Attempted'
     /\ Count(emitted', TerminalTypes) = Count(emitted, TerminalTypes) + 1

\* C5: cancellation is cooperative and bounded.  The flag is tested at the
\* top of an iteration (and after the loop, where nothing is started).
C5_CooperativeCancellation ==
  []C5_AtMostOneAfterStop /\ [][C5_InFlightCompletes]_vars

\* C5 witness: the flag was set while an item was in the making, that item
\* got its terminal event, and a later item was cut off.
C5_Witness ==
  /\ stop_event
  /\ wpc = "done"
  /\ Count(emitted, TerminalTypes) - stopMark = 1
  /\ \E k \in 1..N : outcome[selected_sequences[k]] = "none"

\* C6: in every state the terminal events are exactly those of the
\* attempted items: one Result or Error per attempted item, none for the
\* others.
C6_OneTerminalPerAttempt ==
  /\ Count(emitted, TerminalTypes) = Cardinality(Attempted)
  /\ \A s \in Strips :
       Cardinality(TerminalsOf(s)) = IF s \in Attempted THEN 1 ELSE 0

\* C6 witness: a batch with a Result, an Error and the worker gone.
C6_Witness ==
  /\ wpc = "done"
  /\ Count(emitted, {MSG_RESULT}) = 1
  /\ Count(emitted, {MSG_ERROR}) = 1

\* The batch ran to its end undisturbed: no cancellation, no exception
\* outside the per-item guard, no strip blanked meanwhile.
Undisturbed ==
  /\ WorkerReturned
  /\ ~stop_event
  /\ \A s \in Strips : outcome[s] \notin {"skipped", "crashed"}

\* C7: without cancellation every item is attempted, the items whose
\* synthesize raised get an Error, the others a Result, and Finished comes
\* after all of them.
C7_FailureDoesNotAbort ==
  Undisturbed =>
    /\ \A k \in 1..N :
         LET s == selected_sequences[k] IN
           /\ s \in Attempted
           /\ \A j \in TerminalsOf(s) :
                emitted[j].type =
                  IF Synthesize(handler, outcome[s]) = "raise"
                    THEN MSG_ERROR ELSE MSG_RESULT
           /\ Cardinality(TerminalsOf(s)) = 1
    /\ Count(emitted, TerminalTypes) = N
    /\ Count(emitted, Finished) = 1
    /\ emitted[Len(emitted)].type = MSG_FINISHED

\* C7 witness: two items, the first raised, the second succeeded.
C7_Witness ==
  /\ Undisturbed
  /\ N = 2
  /\ Len(emitted) = 5
  /\ emitted[1].type = MSG_ERROR
  /\ emitted[3].type = MSG_RESULT

\* C8: a Result is emitted only for an item whose synthesis succeeded; an
\* item whose synthesis failed gets an Error.
C8_ResultOnlyOnSuccess ==
  \A k \in 1..Len(emitted) :
    emitted[k].type = MSG_RESULT => outcome[emitted[k].strip] = "written"

\* The module a reference names: relative to the built-in namespace when
\* it starts with '.', else the module part itself.
C9_ReferencedModule(spec) ==
  IF spec[1] = "."
    THEN BuiltinNamespace \o ModulePart(spec)
    ELSE ModulePart(spec)

\* What has to hold of invoke's input for a worker to be started.
C9_Preconditions(inp) ==
  /\ inp.profile \in DOMAIN Voices
  /\ LET spec == Voices[inp.profile] IN
       /\ HasColon(spec)
       /\ ModulePart(spec) # <<>>
       /\ ClassPart(spec) # <<>>
       /\ C9_ReferencedModule(spec) \in ImportableModules
       /\ ClassPart(spec) \in ModuleClasses(C9_ReferencedModule(spec))
  /\ inp.inst
  /\ inp.avail
  /\ \E s \in Strips : inp.sel[s] = "text"

C10_CriticalThenFinished ==
  /\ Count(emitted, {MSG_CRITICAL_ERROR}) <= 1
  /\ \A k \in 1..Len(emitted) :
       emitted[k].type = MSG_CRITICAL_ERROR =>
         /\ Len(emitted) <= k + 1
         /\ Len(emitted) = k + 1 => emitted[k + 1].type = MSG_FINISHED
  /\ (WorkerReturned /\ \E s \in Strips : outcome[s] = "crashed") =>
       /\ Len(emitted) >= 2
       /\ emitted[Len(emitted) - 1].type = MSG_CRITICAL_ERROR
       /\ emitted[Len(emitted)].type = MSG_FINISHED

\* C10 witness: the second item crashed after the first got its Result.
C10_Witness ==
  /\ wpc = "done"
  /\ Len(emitted) = 4
  /\ emitted[1].type = MSG_RESULT
  /\ emitted[3].type = MSG_CRITICAL_ERROR

\* The progress messages the worker put for strip s.
ProgressOf(s) ==
  {k \in 1..Len(emitted) :
     emitted[k].type = MSG_PROGRESS /\ emitted[k].strip = s}

\* C11: no failure leaves the started worker through an exception: the
\* worker function never ends by raising, and a batch whose worker failed
\* is never finalized without an Error or CriticalError having been
\* collected.
C11_NoExceptionLeavesWorker ==
  /\ wpc # "raised"
  /\ (finalized /\ wpc = "raised") =>
       (critical_error \/ collected_errors # <<>>)

C13_IdAssigned ==
  /\ \A s \in Strips : tts_id[s] # NoId => Len(tts_id[s]) = IdLength
  /\ \A s \in Attempted : tts_id[s] # NoId
  /\ \A s \in Strips :
       LET once == GetOrCreateStripId(tts_id, s) IN
         /\ once[s] # NoId
         /\ tts_id[s] # NoId => once = tts_id
         /\ GetOrCreateStripId(once, s) = once

\* C13 (step part): no step changes an id that has been assigned.
C13_IdKept ==
  \A s \in Strips : tts_id[s] # NoId => tts_id'[s] = tts_id[s]

C14_PathsUnique ==
  \A i, j \in 1..Len(requests) :
    i # j => requests[i].path # requests[j].path

\* The argument with every occurrence of the placeholder replaced by the
\* output path and all else as it is.
RECURSIVE C15_Replaced(_, _, _)
C15_Replaced(chars, k, output_path) ==
  IF k > Len(chars) THEN <<>>
  ELSE IF k + 2 <= Len(chars) /\ SubSeq(chars, k, k + 2) = Placeholder
    THEN output_path \o C15_Replaced(chars, k + 3, output_path)
    ELSE <<chars[k]>> \o C15_Replaced(chars, k + 1, output_path)

\* The command the claim describes.
C15_Command(bin, args, output_path) ==
  <<[isstr |-> TRUE, chars |-> <<bin>>]>>
    \o [k \in 1..Len(args) |->
          IF args[k].isstr
            THEN [isstr |-> TRUE,
                  chars |-> C15_Replaced(args[k].chars, 1, output_path)]
            ELSE args[k]]
    \o (IF \E k \in 1..Len(args) :
             args[k].isstr /\ Contains(args[k].chars, Placeholder)
          THEN <<>> ELSE <<[isstr |-> TRUE, chars |-> output_path]>>)

\* C15: for every argument template and output path _prepare_command
\* returns bin, then the template with every placeholder replaced by the
\* output path and nothing else changed, then the output path if and only
\* if no argument held the placeholder; an empty bin is an error.
C15_PrepareCommand ==
  call.fn = "_prepare_command" =>
    IF call.bin = ""
      THEN call.result.exc # "none"
      ELSE call.result = Value(C15_Command(call.bin, call.args,
                                           call.output_path))

\* The cmd synthesizer was called with a command it could build and a
\* directory it could use: the outcome is that of the process.
C16_Reached ==
  /\ call.fn = "cmd.synthesize"
  /\ PrepareCommand(call.bin, call.args, call.output_path).exc = "none"
  /\ call.env.dir # "uncreatable"

\* C16: exit code 0 is success; a non-zero exit code raises an error that
\* carries stdout and stderr; an executable that is not found raises an
\* error of another kind than the one a non-zero exit code raises.
C16_DistinguishableFailures ==
  C16_Reached =>
    /\ (call.env.popen = "runs" /\ call.env.exit = 0) =>
         call.result.raised.cls = "none"
    /\ (call.env.popen = "runs" /\ call.env.exit # 0) =>
         /\ call.result.raised.cls # "none"
         /\ \E k \in 1..Len(call.result.raised.msg) :
              call.result.raised.msg[k] = "stdout"
         /\ \E k \in 1..Len(call.result.raised.msg) :
              call.result.raised.msg[k] = "stderr"
    /\ call.env.popen = "not_found" =>
         /\ call.result.raised.cls # "none"
         /\ \A x \in ExitCodes \ {0} :
              call.result.raised.cls #
                CmdSynthesize(call.bin, call.args, call.output_path,
                              [call.env EXCEPT !.popen = "runs", !.exit = x]
                             ).raised.cls

\* The call of synthesize failed: it raised or returned False.
C20_Failed ==
  call.result.raised.cls # "none" \/ call.result.returned = "False"

\* C20: for every synthesizer variant, after a synthesize that failed a
\* file exists at output_path only if one existed before the call; the
\* engine or process is run only once the parent directory exists.
C20_NoPartialOutput ==
  call.fn \in {"cmd.synthesize", "gtts.synthesize", "pyttsx3.synthesize"} =>
    /\ C20_Failed => (call.result.file => call.env.before)
    /\ call.result.launched => call.result.dir = "exists"

\* C17: a reference without ':' is rejected; otherwise the module imported
\* is the built-in namespace followed by the module part when the module
\* part begins with '.', else exactly the module part, and the class
\* looked up is the class part.
C17_ReferenceResolution ==
  call.fn = "resolve" =>
    IF ~HasColon(call.spec)
      THEN call.result.rejected
      ELSE /\ ~call.result.rejected
           /\ call.result.imported =
                IF StartsWithDot(ModulePart(call.spec))
                  THEN BuiltinNamespace \o ModulePart(call.spec)
                  ELSE ModulePart(call.spec)
           /\ call.result.class = ClassPart(call.spec)

\* The tables a text names.
C18_Sections(text) ==
  {text[k].name : k \in {j \in 1..Len(text) : text[j].kind = "table"}}

\* C18: _load_voices never raises; a missing file is replaced by the
\* default file (where a file can be written), whose profiles are
\* returned; an unparseable file or a missing TOML parser gives the empty
\* mapping and leaves the file as it is; a file that parses gives its
\* sections keyed by profile name.
C18_LoadFailsSoft ==
  call.fn = "_load_voices" =>
    LET e == call.env
        r == call.result IN
      /\ r.exc = "none"
      /\ (e.toml /\ ~e.file.there /\ r.env.dir = "exists" /\ e.writable) =>
           /\ r.env.file = File(DefaultText)
           /\ r.val = Parse(DefaultText).val
      /\ (~e.toml \/ (e.file.there /\ Parse(e.file.text).exc # "none")) =>
           /\ r.val = <<>>
           /\ r.env.file = e.file
      /\ (e.toml /\ e.file.there /\ Parse(e.file.text).exc = "none") =>
           /\ r.val = Parse(e.file.text).val
           /\ DOMAIN r.val = C18_Sections(e.file.text)

\* The mappings a load can return.
C19_CompleteMappings ==
  {<<>>} \cup {Parse(t).val : t \in {u \in Texts : Parse(u).exc = "none"}}

\* C19: a read of config.voices returns a complete mapping, never the
\* placeholder, during a reload and during the first lazy load; and once
\* reload_voices has returned, the cache is what a fresh load returns.
C19_ReadersSeeCompleteMapping ==
  /\ observed.state # "None"
  /\ observed.state = "set" => observed.val \in C19_CompleteMappings
  /\ (cpc.pc = "idle" /\ cpc.last = "reload") =>
       /\ cfg.voices = "set"
       /\ cfg.voices_val = LoadVoices(cfg, env).val

\* The Error messages among msgs, in order.
RECURSIVE ErrorsOf(_)
ErrorsOf(msgs) ==
  IF msgs = <<>> THEN <<>>
  ELSE (IF Head(msgs).type = MSG_ERROR THEN <<Head(msgs)>> ELSE <<>>)
       \o ErrorsOf(Tail(msgs))

\* C24: a completed batch that collected at least one Error has appended
\* to the log file every collected Error, in emission order, followed by
\* the sound-strip insertion errors, and has reported the error summary;
\* a critical error is reported as well, as a message of its own.  This
\* holds also when the batch was cancelled or had a critical error.
C24_BatchSummary ==
  (finalized /\ collected_errors # <<>>) =>
    /\ collected_errors = ErrorsOf(consumed)
    /\ final_errors = collected_errors \o InsertErrors(collected_results)
    /\ LogAppended(report, final_errors) = final_errors
    /\ "ERROR summary" \in Reported(report)
    /\ critical_error => "ERROR critical" \in Reported(report)

\* The position of strip s in the submitted list.
Pos(s) == CHOOSE k \in 1..N : selected_sequences[k] = s

\* The strips of the terminal messages among msgs, in order.
RECURSIVE TerminalStrips(_)
TerminalStrips(msgs) ==
  IF msgs = <<>> THEN <<>>
  ELSE (IF Head(msgs).type \in TerminalTypes
          THEN <<Head(msgs).strip>> ELSE <<>>)
       \o TerminalStrips(Tail(msgs))

\* The items the worker has begun: their synthesize call is in flight or
\* has ended.
Begun == Attempted \cup (IF wpc = "synth" THEN {Cur} ELSE {})

\* C25: within a batch the worker synthesizes one item at a time in
\* submission order: the terminal events are put in the order of the
\* submitted list, and when an item is begun every item begun before it
\* has had its terminal event and its Progress event put; while a
\* synthesize call is in flight no other item is between its call and its
\* Progress event.
C25_SequentialInOrder ==
  /\ LET t == TerminalStrips(emitted) IN
       \A i, j \in 1..Len(t) : i < j => Pos(t[i]) < Pos(t[j])
  /\ \A s \in Begun :
       \A r \in Begun :
         Pos(r) < Pos(s) =>
           /\ TerminalsOf(r) # {}
           /\ ProgressOf(r) # {}
           /\ \A a \in TerminalsOf(r), b \in TerminalsOf(s) : a < b
  /\ wpc = "synth" =>
       \A r \in Attempted : TerminalsOf(r) # {} /\ ProgressOf(r) # {}

\* C25 witness: a batch of two items, both synthesized, has run to its end.
C25_Witness ==
  /\ wpc = "done"
  /\ N = 2
  /\ \A k \in 1..N : selected_sequences[k] \in Attempted
  /\ Len(TerminalStrips(emitted)) = 2

\* C26 (step part): once the lazy load has stored the mapping (or has
\* left its placeholder), no step but the assignment of reload_voices
\* changes config.voices: not a read by the panel or by invoke, not an
\* edit of voices.toml.
C26_VoicesKept ==
  (/\ cpc.pc \in {"idle", "reload_loaded"}
   /\ cfg.voices # "unset"
   /\ (cfg'.voices # cfg.voices \/ cfg'.voices_val # cfg.voices_val))
  => (cpc.pc = "reload_loaded" /\ cpc'.last = "reload")

\* C26 (state part): between two calls of reload_voices the lazy load
\* opens voices.toml at most once.
C26_ReadAtMostOnce == reads <= 1

\* C26: the cached mapping changes only by an explicit reload, and the
\* file is read at most once between two reloads.
C26_ChangedOnlyByReload == []C26_ReadAtMostOnce /\ [][C26_VoicesKept]_vars

\* C26 witness: the mapping was loaded lazily, voices.toml was edited
\* since, and a reader got the cached mapping, which is no longer what the
\* file holds.
C26_Witness ==
  /\ cpc.pc = "idle"
  /\ cpc.last = "env"
  /\ reads = 1
  /\ cfg.voices = "set"
  /\ observed = [state |-> "set", val |-> cfg.voices_val]
  /\ cfg.voices_val # LoadVoices(cfg, env).val

\* The lazy attributes of the Config object.
LazyAttributes == {"config_dir", "voices_config_path", "voices"}

\* C29: the lazy initialization leaves no placeholder behind: when no
\* initializer is running every lazy attribute is unset or holds its
\* value (after an initializer raised the attribute is unset, so that the
\* next access runs the initializer again), and the initializer of a
\* cached attribute is not run again.
C29_NoPlaceholderLeft ==
  /\ cpc.pc = "idle" => \A a \in LazyAttributes : cfg[a] # "None"
  /\ (cpc.pc = "idle" /\ cpc.last = "raised" /\ observed.state = "raised")
       => cfg.voices = "unset"
  /\ reads <= 1

\* C21: a batch writes to the directory of the preferences when that is
\* not empty and to the computed default only when it is empty; and, the
\* preference being what it was when the batch started, copy path, export
\* list and cleanup look in the directory the batch writes to.
C21_OutputDirectory ==
  gen.phase = "running" =>
    /\ gen.dir = (IF gen.pref # "" THEN gen.pref ELSE OutputDir)
    /\ output_directory = gen.pref =>
         /\ CopyPathOutputDir(output_directory) = gen.dir
         /\ ExportOutputDir(output_directory) = gen.dir
         /\ CleanupOutputDir(output_directory) = gen.dir


\* C22: Cleanup deletes a file only if it is a narration file that is
\* neither linked to a text strip (no text strip carries the id that is in
\* the file's name) nor used by a sound strip; every other file stays.
LinkedToTextStrip(path) ==
  \E s \in DOMAIN tts_id :
    tts_id[s] # NoId /\ Contains(BaseOfPath(path), tts_id[s])

UsedBySoundStrip(path) ==
  \E k \in 1..Len(sounds) : sounds[k].filepath = path

C22_Deleted ==
  \A f \in files :
    f.path \notin Paths(files') =>
      /\ IsNarrationFile(BaseOfPath(f.path))
      /\ ~LinkedToTextStrip(f.path)
      /\ ~UsedBySoundStrip(f.path)

C22_CleanupOnlyUnlinkedUnused == [][C22_Deleted]_vars


\* C30: while a batch has not been finalized, the file of every Result
\* the worker emitted for a file it wrote is still on disk: Cleanup, run
\* between the worker's iterations and the finalization, does not delete
\* it.
C30_ResultFileKept ==
  gen.phase = "running" =>
    \A k \in 1..Len(gen.results) :
      gen.results[k].written => gen.results[k].filepath \in Paths(files)


\* C28: after a finalization, for every Result whose sound strip could
\* not be created the previously existing narration sound strip of its
\* text strip is still on the timeline, the failure is in the error list,
\* and the Results after it were processed (each is either created or in
\* the error list).
OldStripOf(s) == FindExistingAudioForText(gen.before, tts_id, s)

C28_OldStripKeptOnError ==
  gen.phase = "finalized" =>
    /\ \A k \in 1..Len(gen.errors) :
         LET old == OldStripOf(gen.errors[k]) IN
           old # 0 => \E j \in 1..Len(sounds) : sounds[j] = gen.before[old]
    /\ Len(gen.created) + Len(gen.errors) = Len(gen.results)


\* C27: on a timeline that starts without narration sound strips, for
\* every text strip with an id at most one sound strip is named
\* Voc_<its id>; after a finalization every text strip whose sound strip
\* was created by it has that one strip pointing to the file the batch's
\* Result names for it, which, when the synthesizer wrote it, is the
\* newest file of the strip.
StripsNamedFor(s) ==
  {k \in 1..Len(sounds) : Contains(sounds[k].name, SoundName(tts_id[s]))}

ResultFor(s) ==
  gen.results[CHOOSE k \in 1..Len(gen.results) : gen.results[k].strip = s]

FilesOfStrip(s) ==
  {f \in files : Contains(BaseOfPath(f.path), tts_id[s])}

\* t1 is not later than t2.
NotLater(t1, t2) ==
  \E j, k \in 1..Len(Times) : j <= k /\ Times[j] = t1 /\ Times[k] = t2

C27_AtMostOne ==
  \A s \in DOMAIN tts_id :
    tts_id[s] # NoId => Cardinality(StripsNamedFor(s)) <= 1

C27_PointsToNewest ==
  gen.phase = "finalized" =>
    \A c \in 1..Len(gen.created) :
      LET s == gen.created[c] IN
        \A k \in StripsNamedFor(s) :
          /\ sounds[k].filepath = ResultFor(s).filepath
          /\ ResultFor(s).written => \E f \in FilesOfStrip(s) :
               /\ f.path = sounds[k].filepath
               /\ \A g \in FilesOfStrip(s) : NotLater(g.mtime, f.mtime)

NarrationFilesOf(s) ==
  {f \in files : /\ DirOfPath(f.path) = OutputDir
                 /\ IsNarrationFile(BaseOfPath(f.path))
                 /\ tts_id[s] # NoId
                 /\ Contains(BaseOfPath(f.path), tts_id[s])}

RECURSIVE FirstStripWithFiles(_)
FirstStripWithFiles(sel) ==
  IF sel = <<>> THEN 0
  ELSE IF NarrationFilesOf(Head(sel)) # {} THEN Head(sel)
  ELSE FirstStripWithFiles(Tail(sel))

GeneratedLast(s) ==
  CHOOSE f \in NarrationFilesOf(s) :
    \A g \in NarrationFilesOf(s) : NotLater(g.mtime, f.mtime)

C23_Copied ==
  (call' # call /\ call'.fn = "copy_audio_path") =>
    LET s == FirstStripWithFiles(call'.sel) IN
      IF s = 0
        THEN call'.ret = "CANCELLED" /\ clipboard' = clipboard
        ELSE call'.ret = "FINISHED" /\ clipboard' = GeneratedLast(s).path

C23_CopiesLatest == [][C23_Copied]_vars

====
